---- MODULE Spec2Model ----
(***************************************************************************)
(* Model of oryn-python's SubprocessTransport (transport/subprocess.py):   *)
(* one session that spawns the oryn child process, waits for its prompt,   *)
(* exchanges commands with it under an asyncio.Lock, and closes it.        *)
(*                                                                         *)
(* An action is the code a coroutine runs between two suspension points    *)
(* (an await that really yields to the event loop).  The child process,    *)
(* the delivery of its exit status to the event loop and the expiry of     *)
(* timers are the environment and are nondeterministic.                    *)
(*                                                                         *)
(* Specifications:                                                         *)
(*   Spec      the session with concurrent send() calls and close(); the   *)
(*             child writes nothing to stderr and the calls are fixed      *)
(*   SpecErr   one call at a time, a child that writes to stderr, the      *)
(*             drain task and the diagnostic tail (FairSpecErr: with the   *)
(*             drain task scheduled fairly)                                *)
(*   SpecDrain the same with a log sink, a drain loop that fails, and      *)
(*             close()                                                     *)
(*   SpecCmd   one call, made with every command string and option list    *)
(*   SpecReply execute() classifying every reply text                      *)
(*   SpecSync  OrynClientSync called from two threads, each with or        *)
(*             without an event loop already running in it                 *)
(*   SpecParse parse_observation() applied to observation texts            *)
(*   SpecTarget format_target() applied to ids and texts                   *)
(*   SpecFind  connect() up to the launch, with every file system          *)
(*   SpecReconnect  OrynClient.connect() and close() called repeatedly     *)
(*   SpecRunner  intentgym's BenchmarkRunner running a multi-episode task  *)
(*   SpecFrame the read loops of connect() and send() on a character       *)
(*             stream that the child writes in pieces                      *)
(***************************************************************************)
EXTENDS Integers, Sequences, FiniteSets, TLC

\* ------------------------------------------------------------------ bounds
NCallers == 3       \* tasks that call send(), once each
MaxCloses == 2      \* close() calls, one after the other
StdinCap == 1       \* lines the stdin pipe holds before drain() blocks
MaxStderr == 4      \* characters the child writes to stderr in all
ErrCap == 2         \* characters the stderr pipe holds before a write blocks
ReadMax == 2        \* characters one stderr.read(4096) returns at most
TailLimit == 3      \* self._stderr_tail_limit_chars (16_384 in the code)
MaxCmdLen == 3      \* length of a command string
MaxOptions == 2     \* keyword options of an observe() call
MaxReplyLen == 4    \* length of a reply text
MaxSyncCalls == 3   \* blocking calls one thread makes
MaxLoops == 4       \* event loops OrynClientSync creates
MaxLines == 3       \* lines of an observation text
MaxIdDigits == 2    \* digits of an element id
IntMaxStrDigits == 1    \* digits int() converts (4300 in the interpreter)
MaxTargetLen == 3   \* length of a target text
MaxConnects == 4    \* connect() calls on one client
MaxEpisodes == 2    \* episodes of a task
MaxBodyLines == 2   \* lines the child writes before the prompt
ChunkMax == 8       \* characters one stdout.read() returns at most (4096 in the code)

Callers == 1..NCallers

\* ------------------------------------------------------- program constants
NoRC == -1          \* Python None as a returncode
ExitOk == 0         \* the child's status when it obeys "exit"
ExitCrash == 11     \* the child's status when it exits on its own
ExitKilled == -9    \* the status of a child ended by Process.kill()
ExitLine == 0       \* the line b"exit\n" that close() writes
Banner == 0         \* the child's initial banner and prompt
ConfigTimeout == 30         \* OrynConfig.timeout
ConfigConnectTimeout == 60  \* OrynConfig.connect_timeout

VARIABLES
    process,        \* self._process is not None
    connected,      \* self._connected
    locked,         \* self._lock: _locked
    waiters,        \* self._lock: futures of the tasks waiting, oldest first
    woken,          \* self._lock: the waiter whose future is done (0: none)
    stderr_task,    \* self._stderr_task: "none", "running", "done", "failed" (ended by an exception)
    connPc,         \* position of the connect() call
    connErr,        \* what connect() raised: [kind, rc]
    pc,             \* position of each send() call
    outcome,        \* what each send() returned or raised: [kind, rc, resp]
    cpc,            \* position of the close() call in progress
    closes,         \* close() calls that have returned
    alive,          \* child: running
    exitstatus,     \* child: its exit status once it has ended
    returncode,     \* self._process.returncode as the event loop knows it
    outBuf,         \* child's stdout: replies buffered and not yet read
    outEof,         \* child's stdout: end of stream fed to the reader
    inBuf,          \* child's stdin: lines written and not yet consumed
    stdinState,     \* child's stdin: "open", "closed" (by close()), "broken"
    order,          \* history: callers in the order they asked for the lock
    served,         \* history: callers in the order they got the lock
    finished,       \* history: callers in the order their exchange ended
    touched,        \* history: callers that wrote to stdin or read stdout
    seen,           \* history: what has happened so far: [timeout, lost, closed, drain]
    born,           \* history: the value of seen when each send() was called
    caught,         \* history: calls in flight or queued when the child was lost
    call,           \* the client call each caller makes: [method, arg]
    last_observation,   \* OrynClient._last_observation: [caller, raw]
    errWritten,     \* child's stderr: characters written into the pipe so far
    errPending,     \* child's stderr: characters of a write blocked for room
    errRead,        \* characters _drain_stderr has read so far
    stderr_tail,    \* self._stderr_tail: the retained chunks, oldest first
    stderr_tail_chars,  \* self._stderr_tail_chars
    log_sink,       \* config.log_file and self._log_file_handle: "none", "configured", "open"
    logged,         \* characters _drain_stderr has written to the log sink
    drain_error,    \* history: the last exception raised inside _drain_stderr
    reply,          \* the raw reply send() hands to execute()
    result,         \* the OrynResult execute() returns: [set, success, has_error, error]
    sync_loop,      \* OrynClientSync._loop: a loop id, 0 for None
    owns_loop,      \* OrynClientSync._owns_loop
    loops,          \* the loops created: "none", "idle", "running", "closed"
    ambient,        \* per thread: an event loop is already running in it
    stream_loop,    \* the loop the transport's streams belong to (0: no transport)
    sync_connected, \* the transport exists and its _connected is set
    sync_lock,      \* the transport's _lock: [locked, deque, waiters, woken, loop]
    tpc,            \* per thread: position of its blocking call
    tloop,          \* per thread: the loop that drives its call
    tcall,          \* per thread: the call it makes: [method, options]
    tres,           \* per thread: how its last call ended
    ncalls,         \* per thread: calls made so far
    observation,    \* the OrynObservation parse_observation() returns
    target,         \* the argument of format_target(): [kind, val]
    token,          \* what format_target() returns: [set, val]
    files,          \* the file system: what is at each place find_binary looks
    binary,         \* self._binary: the place of the path found, "none" if unset
    transport,      \* OrynClient._transport: a transport id, 0 for None
    transports,     \* per transport made: [process (a child id, 0 for None), connected]
    children,       \* per child spawned: "none", "running", "exited"
    rpc,            \* position of the client's connect() call
    runner_pc,      \* BenchmarkRunner: position in run(), or the exception in flight
    num_episodes,   \* BenchmarkRunner: the episodes requested
    episode,        \* BenchmarkRunner: episode_num
    episode_results,    \* BenchmarkRunner: the EpisodeMetrics so far
    prestart,       \* history: how the block before each episode ended
    oryn_up,        \* the runner's Oryn session is not lost
    restarts,       \* history: sessions the runner started anew
    aggregated,     \* the TaskMetrics of the task: [set, episodes_count, ...]
    frame_mode,     \* the loop that reads: "ready" (_wait_for_ready), "response"
    body,           \* history: the text the child writes before its prompt
    to_write,       \* child's stdout: characters it has yet to write
    pipe,           \* child's stdout: characters written and not yet read
    buffer,         \* the read loop's buffer
    frame_pc        \* position of the read loop

vars == <<process, connected, locked, waiters, woken, stderr_task, connPc,
          connErr, pc, outcome, cpc, closes, alive, exitstatus, returncode, outBuf,
          outEof, inBuf, stdinState, order, served, finished, touched,
          seen, born, caught, call, last_observation, errWritten, errPending,
          errRead, stderr_tail, stderr_tail_chars, log_sink, logged, drain_error,
          reply, result,
          sync_loop, owns_loop, loops, ambient, stream_loop, sync_connected,
          sync_lock, tpc, tloop, tcall, tres, ncalls, observation,
          target, token, files, binary, transport, transports, children, rpc,
          runner_pc, num_episodes, episode, episode_results, prestart, oryn_up,
          restarts, aggregated, frame_mode, body, to_write, pipe, buffer, frame_pc>>

sessVars == <<process, connected, stderr_task>>
lockVars == <<locked, waiters, woken>>
connVars == <<connPc, connErr>>
sendVars == <<pc, outcome>>
closeVars == <<cpc, closes>>
childVars == <<alive, exitstatus, returncode, outBuf, outEof, inBuf, stdinState>>
histVars == <<order, served, finished, touched, seen, born, caught>>
errVars == <<errWritten, errPending, errRead, stderr_tail, stderr_tail_chars, logged,
             drain_error>>

replyVars == <<reply, result>>
parseVars == <<observation>>
targetVars == <<target, token>>
findVars == <<files, binary>>
reconnVars == <<transport, transports, children, rpc>>
runnerVars == <<runner_pc, num_episodes, episode, episode_results, prestart, oryn_up,
                restarts, aggregated>>
frameVars == <<frame_mode, body, to_write, pipe, buffer, frame_pc>>
libVars == <<parseVars, targetVars, findVars, reconnVars, runnerVars, frameVars>>
syncVars == <<sync_loop, owns_loop, loops, ambient, stream_loop, sync_connected,
              sync_lock, tpc, tloop, tcall, tres, ncalls>>

\* What the session's actions never change, what an action of send() leaves
\* alone besides the session, and what any other action does.
farCore == <<call, replyVars, syncVars, libVars>>
farVars == <<farCore, log_sink>>
sendFrame == <<farVars, errVars>>
quietVars == <<farVars, last_observation, errVars>>
\* The same for an action that opens or closes the log sink.
quietCore == <<farCore, last_observation, errVars>>

NoSeen == [timeout |-> FALSE, lost |-> FALSE, closed |-> FALSE, drain |-> FALSE]

\* The result of a call: what it returned, or the exception it raised with
\* the attributes the exception carries (returncode; operation and
\* timeout_seconds; stderr).
NoResult == [kind |-> "none", rc |-> NoRC, resp |-> <<>>, op |-> <<>>, secs |-> 0,
             stderr |-> <<>>]
Raised(k, r) == [NoResult EXCEPT !.kind = k, !.rc = r]
Returned(text) == [NoResult EXCEPT !.kind = "ok", !.resp = text]
\* LaunchError(message, stderr=stderr_tail or None); the message names the
\* exit code when r is one.
LaunchError(r, tail) == [NoResult EXCEPT !.kind = "Launch", !.rc = r, !.stderr = tail]
\* TimeoutError(operation, timeout_seconds)
TimeoutError(operation, seconds) ==
    [NoResult EXCEPT !.kind = "Timeout", !.op = operation, !.secs = seconds]

\* ------------------------------------------------------------ strings
\* A string is a sequence of characters; SP stands for every whitespace
\* character, any other character is not blank.
SP == " "

\* str.lstrip(), str.rstrip(), str.strip()
RECURSIVE LStrip(_)
LStrip(s) == IF s # <<>> /\ Head(s) = SP THEN LStrip(Tail(s)) ELSE s

RECURSIVE RStrip(_)
RStrip(s) ==
    IF s # <<>> /\ s[Len(s)] = SP THEN RStrip(SubSeq(s, 1, Len(s) - 1)) ELSE s

Strip(s) == RStrip(LStrip(s))

\* b.startswith(a)
IsPrefix(a, b) == Len(a) <= Len(b) /\ \A n \in 1..Len(a) : a[n] = b[n]

\* The characters of s up to its first whitespace.
RECURSIVE WordPrefix(_)
WordPrefix(s) ==
    IF s = <<>> \/ Head(s) = SP THEN <<>> ELSE <<Head(s)>> \o WordPrefix(Tail(s))

\* str.split(): the words of s, separated by runs of whitespace.
RECURSIVE Split(_)
Split(s) ==
    LET t == LStrip(s)
        w == WordPrefix(t)
    IN  IF t = <<>> THEN <<>> ELSE <<w>> \o Split(SubSeq(t, Len(w) + 1, Len(t)))

\* ------------------------------------------------------------ client calls
\* OrynClient.execute(command) and OrynClient.observe(**options); options
\* is the sequence of the keyword arguments, [key, value] each.
Execute(command) == [method |-> "execute", arg |-> command]
Observe(options) == [method |-> "observe", arg |-> options]

\* Option values: True, a value that is false in a condition (False, None,
\* 0, ""), and any other one, which is true in a condition.
OptTrue == "True"
OptFalsy == ""

\* observe(): `cmd = "observe"`, then one flag for every option.
RECURSIVE ObserveFlags(_)
ObserveFlags(options) ==
    IF options = <<>> THEN <<>>
    ELSE LET o == Head(options)
         IN  (IF o.value = OptTrue THEN <<SP, "--", o.key>>
              ELSE IF o.value # OptFalsy THEN <<SP, "--", o.key, SP, o.value>>
              ELSE <<>>) \o ObserveFlags(Tail(options))

ObserveCommand(options) == <<"observe">> \o ObserveFlags(options)

IsObserve(i) == call[i].method = "observe"

\* The string the client hands to Transport.send().
SendCommand(i) == IF IsObserve(i) THEN ObserveCommand(call[i].arg) ELSE call[i].arg

\* The calls of Spec: observe() and execute("click 5") in turn.
FixedCalls ==
    [i \in Callers |-> IF i % 2 = 1 THEN Observe(<<>>) ELSE Execute(<<"click", SP, "5">>)]

NoObservation == [caller |-> 0, raw |-> <<>>]
\* parse_observation(raw) for the reply raw that call i received.
Observation(i, raw) == [caller |-> i, raw |-> raw]

\* ------------------------------------------------------------ the stderr tail
\* The stderr stream is the sequence of the characters the child writes,
\* numbered from 1; a chunk of text is the sequence of its characters.
ErrBuffered == errWritten - errRead

Chunk(from, n) == [k \in 1..n |-> from + k - 1]

\* "".join(chunks)
RECURSIVE Join(_)
Join(chunks) == IF chunks = <<>> THEN <<>> ELSE Head(chunks) \o Join(Tail(chunks))

\* _get_stderr_tail (the characters of the model are not blank: strip()
\* removes none of them).
GetStderrTail == Join(stderr_tail)

\* An eviction that drops the newest chunk.
RECURSIVE Evict_Newest(_, _)
Evict_Newest(tl, chars) ==
    IF tl # <<>> /\ chars > TailLimit
    THEN Evict_Newest(SubSeq(tl, 1, Len(tl) - 1), chars - Len(tl[Len(tl)]))
    ELSE [tail |-> tl, chars |-> chars]

\* _append_stderr_tail: `while self._stderr_tail and chars > limit: popleft`.
RECURSIVE Evict(_, _)
Evict(tl, chars) ==
    IF tl # <<>> /\ chars > TailLimit
    THEN Evict(Tail(tl), chars - Len(Head(tl)))
    ELSE [tail |-> tl, chars |-> chars]

\* _append_stderr_tail(text): the new deque and the new tracked size.
AppendStderrTail(text) ==
    IF text = <<>>
    THEN [tail |-> stderr_tail, chars |-> stderr_tail_chars]
    ELSE Evict(Append(stderr_tail, text), stderr_tail_chars + Len(text))

\* The child is blocked in a write to a full stderr pipe.
ErrBlocked == alive /\ errPending > 0

\* ------------------------------------------------------------ replies
\* A reply text is a string over: the error prefix "Error: " and the same in
\* capitals, a word, whitespace, a newline, a colour sequence (ESC [ 31 m),
\* the start of a timestamp, fragments of a log line (a module path with a
\* level, a module path, a level) and the phrases of the other failure rules.
ErrPrefix == "Error: "
UpperErrPrefix == "ERROR: "
NL == "\n"
LogMark == "oryn::cdp INFO"
ModPath == "chromiumoxide::conn"
Level == "WARN"
Colour == "ESC[31m"
Timestamp == "2026-01-20T"
Phrases == {"unknown command:", "element not found", "navigation failed"}
OtherFailure == "Operation failed"
ReplyChars ==
    {ErrPrefix, UpperErrPrefix, "Clicked", SP, NL, LogMark, ModPath, Level, Colour,
     Timestamp, OtherFailure} \cup Phrases

\* str.split("\n")
RECURSIVE UpToNL(_)
UpToNL(s) == IF s = <<>> \/ Head(s) = NL THEN <<>> ELSE <<Head(s)>> \o UpToNL(Tail(s))

RECURSIVE SplitLines(_)
SplitLines(s) ==
    LET l == UpToNL(s)
    IN  IF Len(l) = Len(s) THEN <<l>>
        ELSE <<l>> \o SplitLines(SubSeq(s, Len(l) + 2, Len(s)))

Contains(s, c) == \E n \in 1..Len(s) : s[n] = c

\* _is_error_response: `lines = [line.strip() for line in clean.split("\n")
\* if line.strip()]`
StrippedLines(raw) ==
    LET ls == SplitLines(raw)
        st == [n \in 1..Len(ls) |-> Strip(ls[n])]
    IN  SelectSeq(st, LAMBDA l : l # <<>>)

\* A text that keeps its colour sequences.
StripAnsi_Keep(raw) == raw

\* _is_error_response: `ansi_escape.sub("", raw)` with the pattern
\* ESC [ digits and semicolons m.
StripAnsi(raw) == SelectSeq(raw, LAMBDA c : c # Colour)

\* `"::" in line`, and `"ERROR" in line or "WARN" in line or "INFO" in line`.
HasDoubleColon(line) == Contains(line, LogMark) \/ Contains(line, ModPath)
HasLevel(line) ==
    Contains(line, LogMark) \/ Contains(line, Level) \/ Contains(line, UpperErrPrefix)

\* _is_error_response: a line that starts with a date and "T", or that has
\* "::" and ERROR, WARN or INFO, is log output and is skipped.
IsLogLine(line) == Head(line) = Timestamp \/ (HasDoubleColon(line) /\ HasLevel(line))

\* _is_error_response: the failure rules, tried in this order on the lowered
\* text of every line that is left.
IsErrorLine(line) ==
    \/ Head(line) \in {ErrPrefix, UpperErrPrefix}
    \/ Contains(line, "unknown command:")
    \/ Contains(line, "element not found")
    \/ Contains(line, "navigation failed")

IsErrorResponse(raw) ==
    LET lines == StrippedLines(StripAnsi(raw))
    IN  \E n \in 1..Len(lines) : ~IsLogLine(lines[n]) /\ IsErrorLine(lines[n])

\* parser.ERROR_PATTERN, `^Error:\s+(.+)$`, on a stripped line: the prefix
\* with something after it.
MatchesErrorPattern(line) == Head(line) = ErrPrefix /\ Len(line) > 1

\* `"error" in lower_raw or "failed" in lower_raw`
HasErrorPhrase(raw) ==
    \E n \in 1..Len(raw) :
        raw[n] \in {ErrPrefix, UpperErrPrefix, "navigation failed", OtherFailure}

\* parser.parse_action_response(raw).success
ParseActionResponse(raw) ==
    IF \E n \in 1..Len(StrippedLines(raw)) : MatchesErrorPattern(StrippedLines(raw)[n])
    THEN FALSE
    ELSE ~HasErrorPhrase(raw)

NoOrynResult == [set |-> FALSE, success |-> FALSE, has_error |-> FALSE, error |-> <<>>]

\* execute(): OrynResult(success=success, raw=raw,
\* error=raw if not success else None, ...)
OrynResult(raw) ==
    LET success == ~IsErrorResponse(raw)
    IN  [set |-> TRUE, success |-> success, has_error |-> ~success,
         error |-> IF ~success THEN raw ELSE <<>>]

\* No observation has been parsed.
NotParsed ==
    [set |-> FALSE, raised |-> "none", url |-> <<>>, title |-> <<>>,
     elements |-> <<>>, patterns |-> [some |-> FALSE, val |-> {}],
     available_intents |-> <<>>]

InitParseIdle == observation = NotParsed

\* format_target() has not been called.
NoTarget == [kind |-> "none", val |-> <<>>]
NoToken == [set |-> FALSE, val |-> <<>>]
InitTargetIdle == target = NoTarget /\ token = NoToken

\* No file system is looked at.
InitFindIdle == files = <<>> /\ binary = "none"

\* No client is reconnecting.
InitReconnIdle == transport = 0 /\ transports = <<>> /\ children = <<>> /\ rpc = "idle"

\* No benchmark is running.
InitRunnerIdle ==
    /\ runner_pc = "idle" /\ num_episodes = 0 /\ episode = 0 /\ episode_results = <<>>
    /\ prestart = <<>> /\ oryn_up = FALSE /\ restarts = 0
    /\ aggregated = [set |-> FALSE]

\* No character stream is read.
InitFrameIdle ==
    /\ frame_mode = "none" /\ body = <<>> /\ to_write = <<>> /\ pipe = <<>>
    /\ buffer = <<>> /\ frame_pc = "idle"

\* The library functions are not in use.
InitLibIdle ==
    /\ InitParseIdle /\ InitTargetIdle /\ InitFindIdle /\ InitReconnIdle
    /\ InitRunnerIdle /\ InitFrameIdle

\* No reply is being classified.
InitNoReply == reply = <<>> /\ result = NoOrynResult
InitReplyIdle == InitNoReply /\ InitLibIdle

\* ------------------------------------------------------------ the blocking client
\* The threads that call one OrynClientSync.
Threads == {1, 2}
LoopIds == 1..MaxLoops

\* The loop that is already running in thread th, when one is.
AmbientLoop(th) == 0 - th

\* asyncio.Lock() of a new transport: free, `_waiters` None, bound to no loop.
FreshLock == [locked |-> FALSE, deque |-> FALSE, waiters |-> <<>>, woken |-> 0, loop |-> 0]

NoCall == [method |-> "none", options |-> <<>>]

\* OrynClientSync.__init__; no thread has called yet.
InitSyncIdle ==
    /\ sync_loop = 0
    /\ owns_loop = FALSE
    /\ loops = [l \in LoopIds |-> "none"]
    /\ stream_loop = 0
    /\ sync_connected = FALSE
    /\ sync_lock = FreshLock
    /\ tpc = [th \in Threads |-> "idle"]
    /\ tloop = [th \in Threads |-> 0]
    /\ tcall = [th \in Threads |-> NoCall]
    /\ tres = [th \in Threads |-> "none"]
    /\ ncalls = [th \in Threads |-> 0]

\* Nobody uses the blocking client.
InitSyncUnused == InitSyncIdle /\ ambient = [th \in Threads |-> FALSE]

\* ------------------------------------------------------------ initial state
\* The transport after __init__.
InitTransport ==
    /\ process = FALSE
    /\ connected = FALSE
    /\ locked = FALSE
    /\ waiters = <<>>
    /\ woken = 0
    /\ stderr_task = "none"
    /\ connPc = "idle"
    /\ connErr = Raised("none", NoRC)
    /\ pc = [i \in Callers |-> "idle"]
    /\ outcome = [i \in Callers |-> NoResult]
    /\ cpc = "idle"
    /\ closes = 0
    /\ alive = FALSE
    /\ exitstatus = NoRC
    /\ returncode = NoRC
    /\ outBuf = <<>>
    /\ outEof = FALSE
    /\ inBuf = <<>>
    /\ stdinState = "open"
    /\ order = <<>>
    /\ served = <<>>
    /\ finished = <<>>
    /\ touched = {}
    /\ seen = NoSeen
    /\ born = [i \in Callers |-> NoSeen]
    /\ caught = {}
    /\ last_observation = NoObservation
    /\ errWritten = 0
    /\ errPending = 0
    /\ errRead = 0
    /\ stderr_tail = <<>>
    /\ stderr_tail_chars = 0
    /\ logged = 0
    /\ drain_error = "none"

\* The session after __init__, made with a configuration that names no log
\* file.
InitSession == InitTransport /\ log_sink = "none"

Init == InitSession /\ call = FixedCalls /\ InitReplyIdle /\ InitSyncUnused

\* ------------------------------------------------------------ the lock
\* asyncio.Lock.acquire takes the lock at once only when it is free and no
\* task is waiting for it; otherwise the caller queues behind the others.
\* A lock that is taken without looking at its state.
CanAcquire_Barging == TRUE

CanAcquire == ~locked /\ waiters = <<>>

\* A release that wakes the newest waiter.
WakeUpLast(w) == IF w = <<>> THEN 0 ELSE w[Len(w)]

\* asyncio.Lock.release wakes the oldest waiter.
WakeUpFirst(w) == IF w = <<>> THEN 0 ELSE Head(w)

\* A send() call is inside the write-command/read-reply exchange.
InExchange(i) == pc[i] \in {"drain", "read_start", "read", "eof_sleep"}

\* The calls a loss of the child catches: one in flight with no reply
\* buffered yet, and those queued behind it, on a session nobody has closed.
Pending ==
    IF \/ seen.closed
       \/ outBuf # <<>>
       \/ ~\E i \in Callers : InExchange(i)
       \/ ~\E i \in Callers : pc[i] = "lock_wait"
    THEN {}
    ELSE {i \in Callers : InExchange(i) \/ pc[i] = "lock_wait"}

\* ------------------------------------------------------------ the child
\* The child ends: every pipe end it holds closes.  Data already written to
\* stdout stays readable; lines it has not consumed are gone.
ChildEnds(code) ==
    /\ alive' = FALSE
    /\ exitstatus' = code
    /\ outEof' = TRUE
    /\ inBuf' = <<>>
    /\ stdinState' = IF stdinState = "open" THEN "broken" ELSE stdinState
    /\ UNCHANGED <<returncode, outBuf>>

\* Process.kill(): SIGKILL to a child that is still running.
Killed ==
    IF alive THEN ChildEnds(ExitKilled) ELSE UNCHANGED childVars

\* The child prints its banner and first prompt.
ChildBanner ==
    /\ alive /\ connPc = "ready_wait" /\ ~outEof /\ outBuf = <<>>
    /\ ~ErrBlocked
    /\ outBuf' = <<Banner>>
    /\ UNCHANGED <<sessVars, lockVars, connVars, sendVars, closeVars, histVars,
                   alive, exitstatus, returncode, outEof, inBuf, stdinState>>
    /\ UNCHANGED quietVars

\* The child reads one command line and prints its reply and the next prompt.
ChildReply ==
    /\ alive /\ inBuf # <<>> /\ Head(inBuf) # ExitLine
    /\ ~ErrBlocked
    /\ inBuf' = Tail(inBuf)
    /\ outBuf' = IF outEof THEN outBuf ELSE Append(outBuf, Head(inBuf))
    /\ UNCHANGED <<sessVars, lockVars, connVars, sendVars, closeVars, histVars,
                   alive, exitstatus, returncode, outEof, stdinState>>
    /\ UNCHANGED quietVars

\* The child reads one line and never answers it.
ChildIgnore ==
    /\ alive /\ inBuf # <<>>
    /\ ~ErrBlocked
    /\ inBuf' = Tail(inBuf)
    /\ UNCHANGED <<sessVars, lockVars, connVars, sendVars, closeVars, histVars,
                   alive, exitstatus, returncode, outBuf, outEof, stdinState>>
    /\ UNCHANGED quietVars

\* The child reads "exit" and ends normally.
ChildExitOnCmd ==
    /\ alive /\ inBuf # <<>> /\ Head(inBuf) = ExitLine
    /\ ~ErrBlocked
    /\ ChildEnds(ExitOk)
    /\ UNCHANGED <<sessVars, lockVars, connVars, sendVars, closeVars, histVars>>
    /\ UNCHANGED quietVars

\* The child ends on its own (sys.exit(11) in the tests' fake binary).
ChildCrash ==
    /\ alive
    /\ ChildEnds(ExitCrash)
    /\ caught' = caught \cup Pending
    /\ UNCHANGED <<sessVars, lockVars, connVars, sendVars, closeVars, order, served,
                   finished, touched, seen, born>>
    /\ UNCHANGED quietVars

\* The child closes its stdout and keeps running.
ChildCloseStdout ==
    /\ alive /\ ~outEof
    /\ ~ErrBlocked
    /\ outEof' = TRUE
    /\ caught' = caught \cup Pending
    /\ UNCHANGED <<sessVars, lockVars, connVars, sendVars, closeVars, order, served,
                   finished, touched, seen, born,
                   alive, exitstatus, returncode, outBuf, inBuf, stdinState>>
    /\ UNCHANGED quietVars

\* The event loop learns the child's exit status: Process.returncode is set.
NotifyExit ==
    /\ ~alive /\ exitstatus # NoRC /\ returncode = NoRC
    /\ returncode' = exitstatus
    /\ UNCHANGED <<sessVars, lockVars, connVars, sendVars, closeVars, histVars,
                   alive, exitstatus, outBuf, outEof, inBuf, stdinState>>
    /\ UNCHANGED quietVars

\* The child writes n characters to stderr: what the pipe has room for goes
\* in, and the child blocks on the rest until the pipe is read.
ChildStderrWrite(n) ==
    /\ alive /\ errPending = 0
    /\ stderr_task # "failed"
    /\ errWritten + n <= MaxStderr
    /\ LET room == ErrCap - ErrBuffered
           now == IF n <= room THEN n ELSE room
       IN  /\ errWritten' = errWritten + now
           /\ errPending' = n - now
    /\ UNCHANGED <<sessVars, lockVars, connVars, sendVars, closeVars, childVars,
                   histVars, farVars, last_observation, errRead, stderr_tail,
                   stderr_tail_chars, logged, drain_error>>

\* _drain_stderr: stderr.read(4096) returns k characters, which go to the
\* tail and, when a log sink is open, to the sink; a write or flush of the
\* sink that raises is passed over.  The loop then evaluates
\* self._process.stderr again, which raises AttributeError and ends the task
\* once _kill_process has cleared the handle.  The room made in the pipe lets
\* a blocked write of the child go on.
StderrRead(k) ==
    /\ stderr_task = "running"
    /\ k <= ErrBuffered /\ k <= ReadMax
    /\ \E sink_fails \in (IF log_sink = "open" THEN BOOLEAN ELSE {FALSE}) :
          /\ logged' = IF log_sink = "open" /\ ~sink_fails THEN logged + k ELSE logged
          /\ drain_error' = IF ~process THEN "AttributeError"
                            ELSE IF sink_fails THEN "log write" ELSE drain_error
          /\ seen' = [seen EXCEPT !.drain = @ \/ ~process \/ sink_fails]
    /\ LET new == AppendStderrTail(Chunk(errRead + 1, k))
           room == ErrCap - (ErrBuffered - k)
           now == IF ~alive THEN 0 ELSE IF errPending <= room THEN errPending ELSE room
       IN  /\ stderr_tail' = new.tail
           /\ stderr_tail_chars' = new.chars
           /\ errRead' = errRead + k
           /\ errWritten' = errWritten + now
           /\ errPending' = errPending - now
    /\ stderr_task' = IF process THEN "running" ELSE "failed"
    /\ UNCHANGED <<process, connected, lockVars, connVars, sendVars, closeVars,
                   childVars, order, served, finished, touched, born, caught, farVars,
                   last_observation>>

\* _drain_stderr: stderr.read(4096) raises the exception the stream holds
\* since its pipe failed.  Nothing in the loop catches it: the task ends with
\* it.  The failed pipe is closed, so what the child writes to stderr from
\* then on is lost and does not block it.
DrainReadFails ==
    /\ stderr_task = "running"
    /\ stderr_task' = "failed"
    /\ drain_error' = "read"
    /\ seen' = [seen EXCEPT !.drain = TRUE]
    /\ errPending' = 0
    /\ UNCHANGED <<errWritten, errRead, stderr_tail, stderr_tail_chars, logged>>
    /\ UNCHANGED <<process, connected, lockVars, connVars, sendVars, closeVars,
                   childVars, order, served, finished, touched, born, caught, farVars,
                   last_observation>>

\* _drain_stderr reads end of stream and returns.
StderrEof ==
    /\ stderr_task = "running" /\ ~alive
    /\ ErrBuffered = 0
    /\ stderr_task' = "done"
    /\ UNCHANGED <<process, connected, lockVars, connVars, sendVars, closeVars,
                   childVars, histVars>>
    /\ UNCHANGED quietVars

\* ------------------------------------------------------------ send()
\* send() ends with result res and leaves `async with self._lock`;
\* w: the tasks still waiting for the lock.
Finish(i, res, w) ==
    /\ pc' = [pc EXCEPT ![i] = "done"]
    /\ outcome' = [outcome EXCEPT ![i] = res]
    /\ finished' = Append(finished, i)
    /\ locked' = FALSE
    /\ waiters' = w
    /\ woken' = WakeUpFirst(w)
    /\ seen' = [seen EXCEPT !.timeout = @ \/ res.kind = "Timeout",
                            !.lost = @ \/ res.kind = "ConnectionLost"]

\* The returncode a ConnectionLostError raised by _read_response carries:
\* `self._process.returncode if self._process else None`.
ObservedReturncode == IF process THEN returncode ELSE NoRC

\* _send_locked up to its first suspension, entered with the lock just taken.
\* A write to a stdin that close() has closed, or whose reading end is gone,
\* is dropped; drain() then raises ConnectionResetError, which nothing here
\* catches, unless the event loop has not yet told the stream of the loss.
SendLocked(i, w) ==
    /\ served' = Append(served, i)
    /\ IF ~process
       THEN /\ Finish(i, Raised("ConnectionLost", NoRC), w)
            /\ UNCHANGED <<childVars, touched>>
       ELSE IF returncode # NoRC
       THEN /\ Finish(i, Raised("ConnectionLost", returncode), w)
            /\ UNCHANGED <<childVars, touched>>
       ELSE /\ touched' = touched \cup {i}
            /\ IF stdinState # "open"
               THEN /\ \/ Finish(i, Raised("ConnectionResetError", NoRC), w)
                       \/ /\ pc' = [pc EXCEPT ![i] = "read_start"]
                          /\ locked' = TRUE
                          /\ waiters' = w
                          /\ woken' = 0
                          /\ UNCHANGED <<outcome, finished, seen>>
                    /\ UNCHANGED childVars
               ELSE /\ inBuf' = Append(inBuf, i)
                    /\ pc' = [pc EXCEPT ![i] =
                                IF Len(inBuf) + 1 > StdinCap THEN "drain" ELSE "read_start"]
                    /\ locked' = TRUE
                    /\ waiters' = w
                    /\ woken' = 0
                    /\ UNCHANGED <<outcome, finished, seen, alive, exitstatus,
                                   returncode, outBuf, outEof, stdinState>>

\* A client that caches the reply of every call that returns.
CacheObservation_Always(i) ==
    last_observation' =
        IF outcome[i].kind = "none" /\ outcome'[i].kind = "ok"
        THEN Observation(i, outcome'[i].resp)
        ELSE last_observation

\* OrynClient.observe(): `self._last_observation = observation` once send()
\* has returned; execute() and a send() that raises leave the cache alone.
\* No await stands between the return of send() and the assignment.
CacheObservation(i) ==
    last_observation' =
        IF IsObserve(i) /\ outcome[i].kind = "none" /\ outcome'[i].kind = "ok"
        THEN Observation(i, outcome'[i].resp)
        ELSE last_observation

\* send(): the connection check, then `async with self._lock`.  The calling
\* tasks are alike; they are numbered in the order in which they call.
SendCall(i) ==
    /\ pc[i] = "idle"
    /\ \A j \in Callers : j < i => pc[j] # "idle"
    /\ born' = [born EXCEPT ![i] = seen]
    /\ IF ~connected \/ ~process
       THEN /\ pc' = [pc EXCEPT ![i] = "done"]
            /\ outcome' = [outcome EXCEPT ![i] = Raised("ConnectionLost", NoRC)]
            /\ UNCHANGED <<lockVars, childVars, order, served, finished, touched, seen>>
       ELSE /\ order' = Append(order, i)
            /\ IF CanAcquire
               THEN SendLocked(i, waiters)
               ELSE /\ waiters' = Append(waiters, i)
                    /\ pc' = [pc EXCEPT ![i] = "lock_wait"]
                    /\ UNCHANGED <<locked, woken, outcome, childVars, served,
                                   finished, touched, seen>>
    /\ UNCHANGED <<sessVars, connVars, closeVars, caught>>
    /\ CacheObservation(i)
    /\ UNCHANGED sendFrame

\* A waiter whose future release() completed resumes and takes the lock.
LockWake(i) ==
    /\ pc[i] = "lock_wait"
    /\ woken = i
    /\ SendLocked(i, SelectSeq(waiters, LAMBDA x : x # i))
    /\ UNCHANGED <<sessVars, connVars, closeVars, order, born, caught>>
    /\ CacheObservation(i)
    /\ UNCHANGED sendFrame

\* drain() returns once the child has consumed enough, or raises when the
\* pipe breaks.
DrainResume(i) ==
    /\ pc[i] = "drain"
    /\ \/ /\ stdinState = "broken"
          /\ Finish(i, Raised("ConnectionResetError", NoRC), waiters)
       \/ /\ stdinState # "broken"
          /\ Len(inBuf) <= StdinCap
          /\ pc' = [pc EXCEPT ![i] = "read_start"]
          /\ UNCHANGED <<lockVars, outcome, finished, seen>>
    /\ UNCHANGED <<sessVars, connVars, closeVars, childVars, order, served, touched, born, caught>>
    /\ CacheObservation(i)
    /\ UNCHANGED sendFrame

\* _read_response starts (wait_for runs it as a task of its own).
ReadStart(i) ==
    /\ pc[i] = "read_start"
    /\ IF ~process
       THEN Finish(i, Returned(<<>>), waiters)
       ELSE /\ pc' = [pc EXCEPT ![i] = "read"]
            /\ UNCHANGED <<lockVars, outcome, finished, seen>>
    /\ UNCHANGED <<sessVars, connVars, closeVars, childVars, order, served, touched, born, caught>>
    /\ CacheObservation(i)
    /\ UNCHANGED sendFrame

\* stdout.read(4096) returns: everything buffered, which ends with a prompt,
\* or nothing at end of stream.
ReadChunk(i) ==
    /\ pc[i] = "read"
    /\ outBuf # <<>> \/ outEof
    /\ IF outBuf # <<>>
       THEN /\ Finish(i, Returned(outBuf), waiters)
            /\ outBuf' = <<>>
       ELSE /\ IF process /\ returncode = NoRC
               THEN /\ pc' = [pc EXCEPT ![i] = "eof_sleep"]
                    /\ UNCHANGED <<lockVars, outcome, finished, seen>>
               ELSE Finish(i, Raised("ConnectionLost", ObservedReturncode), waiters)
            /\ UNCHANGED outBuf
    /\ UNCHANGED <<sessVars, connVars, closeVars, alive, exitstatus, returncode, outEof,
                   inBuf, stdinState, order, served, touched, born, caught>>
    /\ CacheObservation(i)
    /\ UNCHANGED sendFrame

\* asyncio.sleep(0.01) after end of stream is over: returncode is read again.
EofSleepDone(i) ==
    /\ pc[i] = "eof_sleep"
    /\ Finish(i, Raised("ConnectionLost", ObservedReturncode), waiters)
    /\ UNCHANGED <<sessVars, connVars, closeVars, childVars, order, served, touched, born, caught>>
    /\ CacheObservation(i)
    /\ UNCHANGED sendFrame

\* What _send_locked(command) raises when wait_for times out:
\* `TimeoutError(command.split()[0] if command else "command", timeout)`.
\* A command of whitespace only is not empty and has no first word.
TimeoutResult(command) ==
    IF ~process THEN Raised("AttributeError", NoRC)
    ELSE IF returncode # NoRC THEN Raised("ConnectionLost", returncode)
    ELSE IF command = <<>> THEN TimeoutError(<<"command">>, ConfigTimeout)
    ELSE IF Split(command) = <<>> THEN Raised("IndexError", NoRC)
    ELSE TimeoutError(Split(command)[1], ConfigTimeout)

\* A timeout handled as a lost connection: the session is marked unconnected.
SendTimeout_MarksLost(i) ==
    /\ pc[i] \in {"read", "eof_sleep"}
    /\ Finish(i, TimeoutResult(SendCommand(i)), waiters)
    /\ connected' = FALSE
    /\ UNCHANGED <<process, stderr_task, connVars, closeVars, childVars, order,
                   served, touched, born, caught>>
    /\ CacheObservation(i)
    /\ UNCHANGED sendFrame

\* The per-command timeout expires while _read_response is suspended.
SendTimeout(i) ==
    /\ pc[i] \in {"read", "eof_sleep"}
    /\ Finish(i, TimeoutResult(SendCommand(i)), waiters)
    /\ UNCHANGED <<sessVars, connVars, closeVars, childVars, order, served, touched, born, caught>>
    /\ CacheObservation(i)
    /\ UNCHANGED sendFrame

\* ------------------------------------------------------------ connect()
\* connect() raises before a process exists: find_binary finds nothing,
\* the configuration object has no log_file attribute (OrynConfig declares
\* none), or create_subprocess_exec fails.
ConnectSpawnFails ==
    /\ connPc = "idle"
    /\ connPc' = "failed"
    /\ \E k \in {"BinaryNotFound", "AttributeError", "Launch"} : connErr' = Raised(k, NoRC)
    /\ UNCHANGED <<sessVars, lockVars, sendVars, closeVars, childVars, histVars>>
    /\ UNCHANGED quietVars

\* connect(): `if self._config.log_file:` the file is opened for appending;
\* when open() raises, the exception is passed over and no handle is kept.
OpenLog == IF log_sink = "configured" THEN {"open", "configured"} ELSE {log_sink}

\* A spawn that starts no drain task.
ConnectSpawn_NoDrain ==
    /\ connPc = "idle"
    /\ connPc' = "ready_wait"
    /\ process' = TRUE
    /\ alive' = TRUE
    /\ seen' = NoSeen
    /\ UNCHANGED <<connected, stderr_task, lockVars, connErr, sendVars, closeVars,
                   exitstatus, returncode, outBuf, outEof, inBuf, stdinState, order,
                   served, finished, touched, born, caught>>
    /\ log_sink' \in OpenLog
    /\ UNCHANGED quietCore

\* create_subprocess_exec succeeds; the stderr drain task is started.
ConnectSpawn ==
    /\ connPc = "idle"
    /\ connPc' = "ready_wait"
    /\ process' = TRUE
    /\ stderr_task' = "running"
    /\ alive' = TRUE
    /\ seen' = NoSeen
    /\ UNCHANGED <<connected, lockVars, connErr, sendVars, closeVars, exitstatus, returncode,
                   outBuf, outEof, inBuf, stdinState, order, served, finished,
                   touched, born, caught>>
    /\ log_sink' \in OpenLog
    /\ UNCHANGED quietCore

\* _wait_for_ready: stdout.read(1024) returns the prompt, or end of stream.
\* A LaunchError raised here passes through connect(), which catches only
\* asyncio.TimeoutError.
ConnectRead ==
    /\ connPc = "ready_wait"
    /\ outBuf # <<>> \/ outEof
    /\ IF outBuf # <<>>
       THEN /\ connected' = TRUE
            /\ outBuf' = <<>>
            /\ connPc' = "done"
            /\ UNCHANGED connErr
       ELSE /\ IF returncode = NoRC
               THEN connPc' = "eof_sleep" /\ UNCHANGED connErr
               ELSE connPc' = "failed" /\ connErr' = LaunchError(returncode, GetStderrTail)
            /\ UNCHANGED <<connected, outBuf>>
    /\ UNCHANGED <<process, stderr_task, lockVars, sendVars, closeVars, alive, exitstatus,
                   returncode, outEof, inBuf, stdinState, histVars>>
    /\ UNCHANGED quietVars

\* _wait_for_ready: asyncio.sleep(0.01) is over; returncode is read again,
\* then the stderr tail, and LaunchError is raised with or without an exit
\* code in its message.
ConnectEofSleepDone ==
    /\ connPc = "eof_sleep"
    /\ connPc' = "failed"
    /\ connErr' = LaunchError(returncode, GetStderrTail)
    /\ UNCHANGED <<sessVars, lockVars, sendVars, closeVars, childVars, histVars>>
    /\ UNCHANGED quietVars

\* A connect timeout reported as a launch failure whatever the child does.
ConnectTimeoutError_AsLaunch == LaunchError(NoRC, GetStderrTail)

\* What connect() raises when the timeout found no exit status.
ConnectTimeoutError == TimeoutError(<<"connect">>, ConfigConnectTimeout)

\* The connect timeout expires: returncode and the stderr tail are read,
\* then _kill_process, then LaunchError or TimeoutError is raised.
ConnectTimeout ==
    /\ connPc \in {"ready_wait", "eof_sleep"}
    /\ IF returncode # NoRC
       THEN /\ connPc' = "failed"
            /\ connErr' = LaunchError(returncode, GetStderrTail)
            /\ process' = FALSE
            /\ UNCHANGED childVars
       ELSE /\ connPc' = "kill_wait"
            /\ connErr' = ConnectTimeoutError
            /\ Killed
            /\ UNCHANGED process
    /\ UNCHANGED <<connected, stderr_task, lockVars, sendVars, closeVars, histVars>>
    /\ UNCHANGED quietVars

\* _kill_process called by connect(): process.wait() returns.
ConnectKillWaitDone ==
    /\ connPc = "kill_wait"
    /\ returncode # NoRC
    /\ connPc' = "failed"
    /\ process' = FALSE
    /\ UNCHANGED <<connected, stderr_task, lockVars, connErr, sendVars, closeVars,
                   childVars, histVars>>
    /\ UNCHANGED quietVars

\* ------------------------------------------------------------ close()
\* close(): `if self._log_file_handle:` the handle is closed and dropped.
CloseLog == IF log_sink = "open" THEN "configured" ELSE log_sink

\* An await of the drain task that lets the task's exception pass.
AwaitStderrTask_Unguarded ==
    IF stderr_task = "failed"
    THEN cpc' = "raised" /\ UNCHANGED <<closes, stderr_task, log_sink>>
    ELSE /\ cpc' = "done" /\ closes' = closes + 1
         /\ stderr_task' = "none"
         /\ log_sink' = CloseLog

\* close() once the drain task has ended (or when there is none):
\* `try: await self._stderr_task` `except Exception: pass`; the task is
\* dropped, the log sink is closed and close() returns.
AwaitStderrTask ==
    /\ cpc' = "done" /\ closes' = closes + 1
    /\ stderr_task' = "none"
    /\ log_sink' = CloseLog

\* close() from `if self._stderr_task:` on: the drain task is awaited.
CloseTail ==
    IF stderr_task = "running"
    THEN cpc' = "stderr_wait" /\ UNCHANGED <<closes, stderr_task, log_sink>>
    ELSE AwaitStderrTask

\* A _kill_process that drops the handle only after a successful wait().
KillProcess_KeepsHandle ==
    IF ~process
    THEN CloseTail /\ UNCHANGED <<process, childVars>>
    ELSE IF returncode # NoRC
    THEN CloseTail /\ UNCHANGED <<process, childVars>>
    ELSE /\ Killed
         /\ cpc' = "kill_wait" /\ UNCHANGED closes
         /\ UNCHANGED <<process, stderr_task, log_sink>>

\* _kill_process up to its suspension in process.wait(); kill() raises
\* ProcessLookupError, which is passed over, once the exit status is known.
KillProcess ==
    IF ~process
    THEN CloseTail /\ UNCHANGED <<process, childVars>>
    ELSE IF returncode # NoRC
    THEN process' = FALSE /\ CloseTail /\ UNCHANGED childVars
    ELSE /\ Killed
         /\ cpc' = "kill_wait" /\ UNCHANGED closes
         /\ UNCHANGED <<process, stderr_task, log_sink>>

\* close() is called: the exit line is written unless stdin is closing.
CloseCall ==
    /\ cpc \in {"idle", "done"}
    /\ closes < MaxCloses
    /\ connPc \in {"idle", "done", "failed"}
    /\ connected' = FALSE
    /\ seen' = [seen EXCEPT !.closed = TRUE]
    /\ IF ~process
       THEN CloseTail /\ UNCHANGED <<process, childVars>>
       ELSE IF stdinState # "open"
       THEN /\ cpc' = "wait" /\ UNCHANGED closes
            /\ UNCHANGED <<process, stderr_task, log_sink, childVars>>
       ELSE /\ inBuf' = Append(inBuf, ExitLine)
            /\ IF Len(inBuf) + 1 > StdinCap
               THEN /\ cpc' = "drain" /\ UNCHANGED closes
                    /\ UNCHANGED stdinState
               ELSE /\ cpc' = "wait" /\ UNCHANGED closes
                    /\ stdinState' = "closed"
            /\ UNCHANGED <<process, stderr_task, log_sink, alive, exitstatus, returncode,
                           outBuf, outEof>>
    /\ UNCHANGED <<lockVars, connVars, sendVars, order, served, finished, touched, born, caught>>
    /\ UNCHANGED quietCore

\* close(): drain() returns and stdin is closed, or drain() raises and the
\* exception is passed over.
CloseDrainResume ==
    /\ cpc = "drain"
    /\ \/ /\ stdinState = "broken"
          /\ KillProcess
       \/ /\ stdinState # "broken"
          /\ Len(inBuf) <= StdinCap
          /\ stdinState' = "closed"
          /\ cpc' = "wait" /\ UNCHANGED closes
          /\ UNCHANGED <<process, stderr_task, log_sink, alive, exitstatus, returncode,
                         outBuf, outEof, inBuf>>
    /\ UNCHANGED <<connected, lockVars, connVars, sendVars, histVars>>
    /\ UNCHANGED quietCore

\* close(): wait_for(process.wait(), 5.0) returns or times out.
CloseWaitDone ==
    /\ cpc = "wait"
    /\ KillProcess
    /\ UNCHANGED <<connected, lockVars, connVars, sendVars, histVars>>
    /\ UNCHANGED quietCore

\* _kill_process called by close(): process.wait() returns.
CloseKillWaitDone ==
    /\ cpc = "kill_wait"
    /\ returncode # NoRC
    /\ process' = FALSE
    /\ CloseTail
    /\ UNCHANGED <<connected, lockVars, connVars, sendVars, childVars, histVars>>
    /\ UNCHANGED quietCore

\* close(): the stderr drain task has ended.
CloseStderrDone ==
    /\ cpc = "stderr_wait"
    /\ stderr_task # "running"
    /\ AwaitStderrTask
    /\ UNCHANGED <<process, connected, lockVars, connVars, sendVars, childVars, histVars>>
    /\ UNCHANGED quietCore

\* ------------------------------------------------------------ specification
Next ==
    \/ ConnectSpawnFails
    \/ ConnectSpawn
    \/ ConnectRead
    \/ ConnectEofSleepDone
    \/ ConnectTimeout
    \/ ConnectKillWaitDone
    \/ \E i \in Callers : SendCall(i)
    \/ \E i \in Callers : LockWake(i)
    \/ \E i \in Callers : DrainResume(i)
    \/ \E i \in Callers : ReadStart(i)
    \/ \E i \in Callers : ReadChunk(i)
    \/ \E i \in Callers : EofSleepDone(i)
    \/ \E i \in Callers : SendTimeout(i)
    \/ CloseCall
    \/ CloseDrainResume
    \/ CloseWaitDone
    \/ CloseKillWaitDone
    \/ CloseStderrDone
    \/ ChildBanner
    \/ ChildReply
    \/ ChildIgnore
    \/ ChildExitOnCmd
    \/ ChildCrash
    \/ ChildCloseStdout
    \/ NotifyExit
    \/ StderrEof

Spec == Init /\ [][Next]_vars

\* ------------------------------------------- the session with a stderr stream
\* One execute("click 5") on a session whose child also writes to stderr.
InitErr ==
    /\ InitSession
    /\ call = [i \in Callers |-> Execute(<<"click", SP, "5">>)]
    /\ InitReplyIdle
    /\ InitSyncUnused

\* One turn of the loop of _drain_stderr.
DrainStep == \E k \in 1..ReadMax : StderrRead(k)

NextErr ==
    \/ ConnectSpawnFails
    \/ ConnectSpawn
    \/ ConnectRead
    \/ ConnectEofSleepDone
    \/ ConnectTimeout
    \/ ConnectKillWaitDone
    \/ SendCall(1)
    \/ ReadStart(1)
    \/ ReadChunk(1)
    \/ EofSleepDone(1)
    \/ SendTimeout(1)
    \/ ChildBanner
    \/ ChildReply
    \/ ChildIgnore
    \/ ChildCrash
    \/ ChildCloseStdout
    \/ NotifyExit
    \/ \E n \in 1..MaxStderr : ChildStderrWrite(n)
    \/ DrainStep
    \/ StderrEof

SpecErr == InitErr /\ [][NextErr]_vars

\* The drain task is a task of the event loop: once stderr has data to read
\* the loop resumes it, whatever the other tasks wait for.
FairSpecErr == SpecErr /\ WF_vars(DrainStep)

\* ------------------------------------------- the session with a failing drain
\* The same session, made with or without a log file, whose drain loop can
\* fail and which is closed.
InitDrain ==
    /\ InitTransport
    /\ log_sink \in {"none", "configured"}
    /\ call = [i \in Callers |-> Execute(<<"click", SP, "5">>)]
    /\ InitReplyIdle
    /\ InitSyncUnused

NextDrain ==
    \/ ConnectSpawnFails
    \/ ConnectSpawn
    \/ ConnectRead
    \/ ConnectEofSleepDone
    \/ ConnectTimeout
    \/ ConnectKillWaitDone
    \/ SendCall(1)
    \/ ReadStart(1)
    \/ ReadChunk(1)
    \/ EofSleepDone(1)
    \/ SendTimeout(1)
    \/ ChildBanner
    \/ ChildReply
    \/ ChildExitOnCmd
    \/ ChildCrash
    \/ NotifyExit
    \/ ChildStderrWrite(ErrCap)
    \/ DrainStep
    \/ StderrEof
    \/ DrainReadFails
    \/ CloseCall
    \/ CloseDrainResume
    \/ CloseWaitDone
    \/ CloseKillWaitDone
    \/ CloseStderrDone

SpecDrain == InitDrain /\ [][NextDrain]_vars

\* ------------------------------------------- the session with every command
\* The characters of a command: whitespace and two that are not blank.
CmdChars == {SP, "click", "5"}

RECURSIVE SeqsUpTo(_, _)
SeqsUpTo(S, n) ==
    IF n = 0 THEN {<<>>}
    ELSE LET shorter == SeqsUpTo(S, n - 1)
         IN  shorter \cup {Append(s, x) : s \in shorter, x \in S}

Commands == SeqsUpTo(CmdChars, MaxCmdLen)

\* Keyword options of observe(): near=..., full=True, depth=0, ...
Options == [key : {"full", "depth"}, value : {OptTrue, OptFalsy, "2"}]

Calls ==
    {Execute(c) : c \in Commands} \cup {Observe(o) : o \in SeqsUpTo(Options, MaxOptions)}

\* One call, which is any of Calls.
InitCmd ==
    /\ InitSession
    /\ \E c \in Calls : call = [i \in Callers |-> c]
    /\ InitReplyIdle
    /\ InitSyncUnused

NextCmd ==
    \/ ConnectSpawn
    \/ ConnectRead
    \/ ConnectEofSleepDone
    \/ ConnectTimeout
    \/ ConnectKillWaitDone
    \/ SendCall(1)
    \/ ReadStart(1)
    \/ ReadChunk(1)
    \/ EofSleepDone(1)
    \/ SendTimeout(1)
    \/ ChildBanner
    \/ ChildReply
    \/ ChildIgnore
    \/ ChildCrash
    \/ ChildCloseStdout
    \/ NotifyExit
    \/ StderrEof

SpecCmd == InitCmd /\ [][NextCmd]_vars

\* ------------------------------------------- execute() and the reply text
Replies == SeqsUpTo(ReplyChars, MaxReplyLen)

InitReply ==
    /\ InitSession
    /\ call = FixedCalls
    /\ reply \in Replies
    /\ result = NoOrynResult
    /\ InitLibIdle
    /\ InitSyncUnused

\* execute(): send() has returned reply; the OrynResult is built.
ExecuteReturns ==
    /\ ~result.set
    /\ result' = OrynResult(reply)
    /\ UNCHANGED <<sessVars, lockVars, connVars, sendVars, closeVars, childVars,
                   histVars, errVars, call, log_sink, last_observation, reply,
                   syncVars, libVars>>

SpecReply == InitReply /\ [][ExecuteReturns]_vars

\* ------------------------------------------- the blocking client's calls
coreVars == <<sessVars, lockVars, connVars, sendVars, closeVars, childVars,
              histVars, errVars, call, log_sink, last_observation, replyVars>>
sessionVars == <<coreVars, libVars>>

InitSync ==
    /\ InitSession
    /\ call = FixedCalls
    /\ InitReplyIdle
    /\ InitSyncIdle
    /\ ambient \in [Threads -> BOOLEAN]

\* The blocking calls: connect(), execute(command), observe() with the
\* options OrynClient.observe takes, close().
SyncCalls ==
    {[method |-> m, options |-> <<>>] : m \in {"connect", "execute", "observe", "close"}}
        \cup {[method |-> "observe", options |-> <<[key |-> "full", value |-> OptTrue]>>]}

\* loop.is_running(): the loop already running in a thread, or a loop that
\* some thread drives in run_until_complete.
IsRunning(l, lp) == l < 0 \/ (l > 0 /\ lp[l] = "running")

\* asyncio.new_event_loop()
NewLoop(lp) == CHOOSE l \in LoopIds : lp[l] = "none" /\ \A k \in LoopIds : k < l => lp[k] # "none"

Created(lp, l) == [lp EXCEPT ![l] = "idle"]

\* run_until_complete(coro) returns or raises: a loop made for this call
\* alone is closed, the cached one is left idle.
CallEnds(th, kind) ==
    /\ tpc' = [tpc EXCEPT ![th] = "idle"]
    /\ tres' = [tres EXCEPT ![th] = kind]
    /\ tloop' = [tloop EXCEPT ![th] = 0]

LeaveLoop(th) ==
    loops' = [loops EXCEPT ![tloop[th]] = IF tloop[th] = sync_loop THEN "idle" ELSE "closed"]

\* A blocking call: observe() takes no options; _get_loop caches the running
\* loop or a new one when none is cached or the cached one is closed; _run
\* drives the coroutine on a new loop when the cached loop is running and on
\* the cached loop otherwise.  run_until_complete raises RuntimeError in a
\* thread in which a loop is already running.
SyncCall(th, c) ==
    /\ tpc[th] = "idle"
    /\ ncalls[th] < MaxSyncCalls
    /\ Cardinality({l \in LoopIds : loops[l] = "none"}) >= 2
    /\ c.method = "connect" =>
            (stream_loop = 0 /\ \A u \in Threads : tpc[u] = "idle")
    /\ c.method = "close" => \A u \in Threads : tpc[u] = "idle"
    /\ ncalls' = [ncalls EXCEPT ![th] = @ + 1]
    /\ tcall' = [tcall EXCEPT ![th] = c]
    /\ IF c.options # <<>>
       THEN /\ tres' = [tres EXCEPT ![th] = "TypeError"]
            /\ UNCHANGED <<sync_loop, owns_loop, loops, tpc, tloop>>
       ELSE LET stale == sync_loop = 0 \/ (sync_loop > 0 /\ loops[sync_loop] = "closed")
                made == stale /\ ~ambient[th]
                loop == IF ~stale THEN sync_loop
                        ELSE IF ambient[th] THEN AmbientLoop(th) ELSE NewLoop(loops)
                lp1 == IF made THEN Created(loops, loop) ELSE loops
                new_loop == NewLoop(lp1)
            IN  /\ sync_loop' = loop
                /\ owns_loop' = IF stale THEN made ELSE owns_loop
                /\ IF IsRunning(loop, lp1)
                   THEN IF ambient[th]
                        THEN /\ loops' = [lp1 EXCEPT ![new_loop] = "closed"]
                             /\ tres' = [tres EXCEPT ![th] = "RuntimeError"]
                             /\ UNCHANGED <<tpc, tloop>>
                        ELSE /\ loops' = [lp1 EXCEPT ![new_loop] = "running"]
                             /\ tpc' = [tpc EXCEPT ![th] = "start"]
                             /\ tloop' = [tloop EXCEPT ![th] = new_loop]
                             /\ UNCHANGED tres
                   ELSE IF ambient[th]
                        THEN /\ loops' = lp1
                             /\ tres' = [tres EXCEPT ![th] = "RuntimeError"]
                             /\ UNCHANGED <<tpc, tloop>>
                        ELSE /\ loops' = [lp1 EXCEPT ![loop] = "running"]
                             /\ tpc' = [tpc EXCEPT ![th] = "start"]
                             /\ tloop' = [tloop EXCEPT ![th] = loop]
                             /\ UNCHANGED tres
    /\ UNCHANGED <<ambient, stream_loop, sync_connected, sync_lock>>
    /\ UNCHANGED sessionVars

\* OrynClient.connect() runs: a new transport, whose streams belong to the
\* loop that drives the call.
CoConnect(th) ==
    /\ tpc[th] = "start" /\ tcall[th].method = "connect"
    /\ stream_loop' = tloop[th]
    /\ sync_connected' = TRUE
    /\ sync_lock' = FreshLock
    /\ CallEnds(th, "ok")
    /\ LeaveLoop(th)
    /\ UNCHANGED <<sync_loop, owns_loop, ambient, tcall, ncalls>>
    /\ UNCHANGED sessionVars

\* OrynClient.close() runs; then OrynClientSync.close() closes the loop it
\* owns and forgets it.
CoClose(th) ==
    /\ tpc[th] = "start" /\ tcall[th].method = "close"
    /\ stream_loop' = 0
    /\ sync_connected' = FALSE
    /\ CallEnds(th, "ok")
    /\ IF owns_loop /\ sync_loop > 0
       THEN /\ loops' = [loops EXCEPT ![tloop[th]] = "closed", ![sync_loop] = "closed"]
            /\ sync_loop' = 0
       ELSE LeaveLoop(th) /\ UNCHANGED sync_loop
    /\ UNCHANGED <<owns_loop, ambient, sync_lock, tcall, ncalls>>
    /\ UNCHANGED sessionVars

\* _send_locked is entered: the command is written.
EnterExchange(th, lk) ==
    /\ sync_lock' = [lk EXCEPT !.locked = TRUE]
    /\ tpc' = [tpc EXCEPT ![th] = "exchange"]
    /\ UNCHANGED <<tres, tloop, loops>>

\* execute() / observe() run up to the lock: send() checks the connection,
\* then Lock.acquire.  Its fast path tests `not self._locked and
\* (self._waiters is None or all(w.cancelled() for w in self._waiters))` and
\* then sets _locked; once the deque exists the test calls all(), at which
\* another thread can run before _locked is set.  Its slow path makes the
\* deque and a future of the lock's loop, which raises RuntimeError when the
\* lock is bound to another loop.
CoSend(th) ==
    /\ tpc[th] = "start" /\ tcall[th].method \in {"execute", "observe"}
    /\ IF ~sync_connected
       THEN /\ CallEnds(th, "ConnectionLost") /\ LeaveLoop(th)
            /\ UNCHANGED sync_lock
       ELSE IF ~sync_lock.locked /\ sync_lock.waiters = <<>>
       THEN IF ~sync_lock.deque
            THEN EnterExchange(th, sync_lock)
            ELSE /\ tpc' = [tpc EXCEPT ![th] = "lock_test"]
                 /\ UNCHANGED <<sync_lock, tres, tloop, loops>>
       ELSE IF sync_lock.loop \notin {0, tloop[th]}
       THEN /\ sync_lock' = [sync_lock EXCEPT !.deque = TRUE]
            /\ CallEnds(th, "RuntimeError") /\ LeaveLoop(th)
       ELSE /\ sync_lock' = [sync_lock EXCEPT !.deque = TRUE, !.loop = tloop[th],
                                              !.waiters = Append(@, th)]
            /\ tpc' = [tpc EXCEPT ![th] = "lock_wait"]
            /\ UNCHANGED <<tres, tloop, loops>>
    /\ UNCHANGED <<sync_loop, owns_loop, ambient, stream_loop, sync_connected, tcall, ncalls>>
    /\ UNCHANGED sessionVars

\* Lock.acquire, fast path: `self._locked = True` after the test has passed.
LockSet(th) ==
    /\ tpc[th] = "lock_test"
    /\ EnterExchange(th, sync_lock)
    /\ UNCHANGED <<sync_loop, owns_loop, ambient, stream_loop, sync_connected, tcall, ncalls>>
    /\ UNCHANGED sessionVars

\* Lock.acquire, slow path: the waiter's future was completed by release()
\* and its loop runs the waiter again.  release() schedules the wake-up with
\* call_soon, which does not wake a loop sleeping in another thread: only a
\* loop that has the child's pipes to watch comes round to it.
SyncLockWake(th) ==
    /\ tpc[th] = "lock_wait"
    /\ sync_lock.woken = th
    /\ tloop[th] = stream_loop
    /\ EnterExchange(th, [sync_lock EXCEPT !.woken = 0,
                                           !.waiters = SelectSeq(@, LAMBDA x : x # th)])
    /\ UNCHANGED <<sync_loop, owns_loop, ambient, stream_loop, sync_connected, tcall, ncalls>>
    /\ UNCHANGED sessionVars

\* The exchange ends and the lock is released.  On the streams' own loop it
\* ends with the reply, a timeout or the loss of the child; on another loop
\* awaiting the reader's future raises RuntimeError, which _read_response
\* turns into ConnectionLostError.
ExchangeEnds(th, kind) ==
    /\ tpc[th] = "exchange"
    /\ tloop[th] # stream_loop => kind = "ConnectionLost"
    /\ sync_lock' = [sync_lock EXCEPT !.locked = FALSE,
                                      !.woken = IF sync_lock.waiters = <<>> THEN 0
                                                ELSE Head(sync_lock.waiters)]
    /\ CallEnds(th, kind)
    /\ LeaveLoop(th)
    /\ UNCHANGED <<sync_loop, owns_loop, ambient, stream_loop, sync_connected, tcall, ncalls>>
    /\ UNCHANGED sessionVars

NextSync ==
    \/ \E th \in Threads, c \in SyncCalls : SyncCall(th, c)
    \/ \E th \in Threads : CoConnect(th)
    \/ \E th \in Threads : CoClose(th)
    \/ \E th \in Threads : CoSend(th)
    \/ \E th \in Threads : LockSet(th)
    \/ \E th \in Threads : SyncLockWake(th)
    \/ \E th \in Threads, kind \in {"ok", "Timeout", "ConnectionLost"} : ExchangeEnds(th, kind)

SpecSync == InitSync /\ [][NextSync]_vars

\* ------------------------------------------- parse_observation()
\* An observation text is a sequence of tokens.  A token is one punctuation
\* character, one space, one newline, one digit, one status icon, or a run
\* of letters ("input", "Email"), which the patterns treat as \w characters.
QT == "\""
Digits == {"1", "2"}
RedCircle == "RED"
OrangeCircle == "ORANGE"
GreenCircle == "GREEN"
BlackCircle == "BLACK"
PurpleCircle == "PURPLE"
Punct == {"[", "]", "/", QT, "{", "}", ",", "(", ")", "-", ".", ":", "@"}
Icons == {RedCircle, OrangeCircle, GreenCircle, BlackCircle, PurpleCircle}

\* The character classes \s, \d, \w and \S.
IsSpace(c) == c = SP
IsDigit(c) == c \in Digits
IsWordChar(c) == c \notin Punct \cup Icons \cup {SP, NL}
IsNonSpace(c) == c # SP

\* Python's None and a value that is present.
None == [some |-> FALSE, val |-> <<>>]
Some(v) == [some |-> TRUE, val |-> v]

\* s[a:b] with positions counted from 1 and b excluded.
Slice(s, a, b) == SubSeq(s, a, b - 1)

\* A greedy class+ or class* from position p: the position after the run.
SpanEnd(s, p, C(_)) ==
    CHOOSE q \in p..(Len(s) + 1) :
        /\ \A k \in p..(q - 1) : C(s[k])
        /\ q = Len(s) + 1 \/ ~C(s[q])

\* The first position from p on that holds c, 0 if there is none.
Find(s, p, c) ==
    IF \E q \in p..Len(s) : s[q] = c
    THEN CHOOSE q \in p..Len(s) : s[q] = c /\ \A k \in p..(q - 1) : s[k] # c
    ELSE 0

\* An optional group (?:\s+ open ([^close]*) close)? tried at position p:
\* the text between the delimiters and the position after the group, or
\* None and p when the group does not match.
OptDelimited(s, p, open, close) ==
    LET q == SpanEnd(s, p, IsSpace)
        e == Find(s, q + 1, close)
    IN  IF q > p /\ q <= Len(s) /\ s[q] = open /\ e # 0
        THEN [grp |-> Some(Slice(s, q + 1, e)), end |-> e + 1]
        ELSE [grp |-> None, end |-> p]

\* The optional group (?:/(\w+))? tried at position p.
OptRole(s, p) ==
    IF p <= Len(s) /\ s[p] = "/" /\ SpanEnd(s, p + 1, IsWordChar) > p + 1
    THEN [grp |-> Some(Slice(s, p + 1, SpanEnd(s, p + 1, IsWordChar))),
          end |-> SpanEnd(s, p + 1, IsWordChar)]
    ELSE [grp |-> None, end |-> p]

NoMatch == [ok |-> FALSE]

\* ELEMENT_PATTERN.match(line): the five groups, matched from the start of
\* the line; what follows the match is not looked at.
ElementMatch(l) ==
    IF l = <<>> \/ l[1] # "[" THEN NoMatch ELSE
    LET idEnd == SpanEnd(l, 2, IsDigit) IN
    IF idEnd = 2 \/ idEnd > Len(l) \/ l[idEnd] # "]" THEN NoMatch ELSE
    LET tyStart == SpanEnd(l, idEnd + 1, IsSpace) IN
    IF tyStart = idEnd + 1 THEN NoMatch ELSE
    LET tyEnd == SpanEnd(l, tyStart, IsWordChar) IN
    IF tyEnd = tyStart THEN NoMatch ELSE
    LET role == OptRole(l, tyEnd)
        text == OptDelimited(l, role.end, QT, QT)
        mods == OptDelimited(l, text.end, "{", "}")
    IN  [ok |-> TRUE, id |-> Slice(l, 2, idEnd), type |-> Slice(l, tyStart, tyEnd),
         role |-> role.grp, text |-> text.grp, modifiers |-> mods.grp]

\* INTENT_PATTERN.match(line): the icon class holds the four status icons.
IntentMatch(l) ==
    IF l = <<>> \/ l[1] # "-" THEN NoMatch ELSE
    LET icon == SpanEnd(l, 2, IsSpace) IN
    IF icon = 2 \/ icon > Len(l) \/ l[icon] \notin {RedCircle, OrangeCircle, GreenCircle, BlackCircle}
    THEN NoMatch ELSE
    LET nmStart == SpanEnd(l, icon + 1, IsSpace) IN
    IF nmStart = icon + 1 THEN NoMatch ELSE
    LET nmEnd == SpanEnd(l, nmStart, IsNonSpace) IN
    IF nmEnd = nmStart THEN NoMatch ELSE
    LET params == OptDelimited(l, nmEnd, "(", ")")
        reason == OptDelimited(l, params.end, "[", "]")
    IN  [ok |-> TRUE, icon |-> l[icon], name |-> Slice(l, nmStart, nmEnd),
         params |-> params.grp, reason |-> reason.grp]

\* SCAN_SUMMARY_PATTERN.match(line): the digits of the count.
ScanMatch(l) ==
    IF l = <<>> \/ l[1] # "Scanned" THEN NoMatch ELSE
    LET cnt == SpanEnd(l, 2, IsSpace) IN
    IF cnt = 2 THEN NoMatch ELSE
    LET cntEnd == SpanEnd(l, cnt, IsDigit) IN
    IF cntEnd = cnt THEN NoMatch ELSE
    LET word == SpanEnd(l, cntEnd, IsSpace) IN
    IF word = cntEnd \/ word + 1 > Len(l) \/ l[word] \notin {"element", "elements"}
           \/ l[word + 1] # "."
    THEN NoMatch
    ELSE [ok |-> TRUE, count |-> Slice(l, cnt, cntEnd)]

\* The value of a digit string.
DigitChars == <<"0", "1", "2", "3", "4", "5", "6", "7", "8", "9">>
DigitValue(c) == CHOOSE d \in 0..9 : DigitChars[d + 1] = c
RECURSIVE DecimalValue(_)
DecimalValue(ds) ==
    IF ds = <<>> THEN 0
    ELSE 10 * DecimalValue(SubSeq(ds, 1, Len(ds) - 1)) + DigitValue(ds[Len(ds)])

\* int(digits): ValueError for a string of more digits than the
\* interpreter's limit (sys.get_int_max_str_digits(), 4300 by default).
ToInt(ds) ==
    IF Len(ds) > IntMaxStrDigits THEN [ok |-> FALSE, val |-> 0]
    ELSE [ok |-> TRUE, val |-> DecimalValue(ds)]

\* str.split(","): the pieces between the commas.
RECURSIVE SplitOn(_, _)
SplitOn(s, sep) ==
    IF Find(s, 1, sep) = 0 THEN <<s>>
    ELSE <<Slice(s, 1, Find(s, 1, sep))>> \o SplitOn(SubSeq(s, Find(s, 1, sep) + 1, Len(s)), sep)

\* The pieces as split() leaves them, with the space after each comma.
StrippedItems_NoStrip(text) == SplitOn(text, ",")

\* [m.strip() for m in text.split(",")]
StrippedItems(text) ==
    LET parts == SplitOn(text, ",") IN [n \in 1..Len(parts) |-> Strip(parts[n])]

StateFlags == {"checked", "disabled", "readonly", "focused", "expanded", "selected"}

\* ElementState(): every flag false.
ElementState == [f \in StateFlags |-> FALSE]

\* _parse_element_match(match): the Element, or None when int() raises.
ParseElementMatch(m) ==
    LET id == ToInt(m.id)
        mods == IF m.modifiers.some /\ m.modifiers.val # <<>>
                THEN StrippedItems(m.modifiers.val) ELSE <<>>
        state == IF m.modifiers.some /\ m.modifiers.val # <<>>
                 THEN [f \in StateFlags |-> \E n \in 1..Len(mods) : mods[n] = <<f>>]
                 ELSE ElementState
    IN  IF ~id.ok THEN None
        ELSE Some([id |-> id.val, element_type |-> m.type, role |-> m.role,
                   text |-> m.text, state |-> state])

\* status_map.get(icon, "unknown")
StatusOf(icon) ==
    CASE icon = GreenCircle -> "ready"
      [] icon = OrangeCircle -> "navigate_required"
      [] icon = RedCircle -> "missing_pattern"
      [] icon = BlackCircle -> "unavailable"
      [] OTHER -> "unknown"

\* _parse_intent_match(match): the IntentAvailability.
ParseIntentMatch(m) ==
    [name |-> m.name, status |-> StatusOf(m.icon),
     parameters |-> IF m.params.some /\ m.params.val # <<>>
                    THEN StrippedItems(m.params.val) ELSE <<>>,
     trigger_reason |-> m.reason]

\* str.lower() of a run of letters, for the words the texts are written
\* with.
Lower(c) ==
    CASE c = "Login" -> "login"
      [] c = "SEARCH" -> "search"
      [] c = "Email" -> "email"
      [] OTHER -> c

\* `"login" in name_lower`
HoldsKeyword(name, keyword) == \E n \in 1..Len(name) : Lower(name[n]) = keyword

\* _add_pattern(patterns, name): the first branch of the chain whose keyword
\* the name holds sets its field; patterns is the set of the fields set.
AddPattern(patterns, name) ==
    IF HoldsKeyword(name, "login") THEN patterns \cup {"login"}
    ELSE IF HoldsKeyword(name, "search") THEN patterns \cup {"search"}
    ELSE IF HoldsKeyword(name, "pagination") THEN patterns \cup {"pagination"}
    ELSE IF HoldsKeyword(name, "modal") THEN patterns \cup {"modal"}
    ELSE IF HoldsKeyword(name, "cookie") THEN patterns \cup {"cookie_banner"}
    ELSE patterns

\* The parser's locals before the first line.
ParseStart ==
    [section |-> "main", raised |-> "none", url |-> <<>>, title |-> <<>>,
     elements |-> <<>>, patterns |-> {}, available_intents |-> <<>>]

\* One turn of the loop over the lines.
ParseLine(st, raw_line) ==
    LET line == Strip(raw_line) IN
    IF st.raised # "none" \/ line = <<>> THEN st
    ELSE IF line = <<"Patterns", ":">> THEN [st EXCEPT !.section = "patterns"]
    ELSE IF IsPrefix(<<"Available", SP, "Intents">>, line) THEN [st EXCEPT !.section = "intents"]
    ELSE IF st.section = "main" THEN
        IF ScanMatch(line).ok
        THEN IF ToInt(ScanMatch(line).count).ok THEN st ELSE [st EXCEPT !.raised = "ValueError"]
        ELSE IF IsPrefix(<<"Title", ":">>, line)
        THEN [st EXCEPT !.title = Strip(SubSeq(line, 3, Len(line)))]
        ELSE IF IsPrefix(<<"URL", ":">>, line)
        THEN [st EXCEPT !.url = Strip(SubSeq(line, 3, Len(line)))]
        ELSE IF ElementMatch(line).ok /\ ParseElementMatch(ElementMatch(line)).some
        THEN [st EXCEPT !.elements = Append(@, ParseElementMatch(ElementMatch(line)).val)]
        ELSE st
    ELSE IF st.section = "patterns" /\ IsPrefix(<<"-", SP>>, line)
    THEN [st EXCEPT !.patterns = AddPattern(@, Strip(SubSeq(line, 3, Len(line))))]
    ELSE IF st.section = "intents" /\ IntentMatch(line).ok
    THEN [st EXCEPT !.available_intents = Append(@, ParseIntentMatch(IntentMatch(line)))]
    ELSE st

RECURSIVE ParseLines(_, _)
ParseLines(st, lines) ==
    IF lines = <<>> THEN st ELSE ParseLines(ParseLine(st, Head(lines)), Tail(lines))

\* parse_observation(raw): the OrynObservation, or the exception that leaves
\* the function.  The outer raw.strip() removes only blank lines, which the
\* loop skips.
ParseObservation(raw) ==
    LET st == ParseLines(ParseStart, SplitLines(raw))
    IN  [set |-> TRUE, raised |-> st.raised, url |-> st.url, title |-> st.title,
         elements |-> IF st.raised = "none" THEN st.elements ELSE <<>>,
         patterns |-> [some |-> st.raised = "none" /\ st.patterns # {},
                       val |-> IF st.raised = "none" THEN st.patterns ELSE {}],
         available_intents |-> IF st.raised = "none" THEN st.available_intents ELSE <<>>]

\* The lines of the documented formats, written out from their parts.
RECURSIVE JoinWith(_, _)
JoinWith(items, sep) ==
    IF items = <<>> THEN <<>>
    ELSE IF Len(items) = 1 THEN Head(items)
    ELSE Head(items) \o sep \o JoinWith(Tail(items), sep)

Opt(o, before, after) == IF o.some THEN before \o o.val \o after ELSE <<>>

\* "[id] type/role "text" {flag, flag}"
ElementLine(id, type, role, text, flags) ==
    <<"[">> \o id \o <<"]", SP>> \o type \o Opt(role, <<"/">>, <<>>)
        \o Opt(text, <<SP, QT>>, <<QT>>)
        \o (IF flags.some THEN <<SP, "{">> \o JoinWith(flags.val, <<",", SP>>) \o <<"}">> ELSE <<>>)

\* "- icon name (param, param) [reason]"
IntentLine(icon, name, params, reason) ==
    <<"-", SP, icon, SP>> \o name
        \o (IF params.some THEN <<SP, "(">> \o JoinWith(params.val, <<",", SP>>) \o <<")">> ELSE <<>>)
        \o Opt(reason, <<SP, "[">>, <<"]">>)

\* "Scanned N elements."
ScanLine(count) == <<"Scanned", SP>> \o count \o <<SP, "elements", ".">>

IntentsHeader == <<"Available", SP, "Intents", ":">>

\* "@ url "title"", the page header that PAGE_HEADER_PATTERN describes.
HeaderLine(url, title) == <<"@", SP>> \o url \o <<SP, QT>> \o title \o <<QT>>
PageUrl == <<"https://example.com">>
PageTitle == <<"Sign", SP, "In">>

\* "- name", a line of the Patterns section.
PatternLine(name) == <<"-", SP>> \o name

\* The parts the lines are written from.
Ids == SeqsUpTo(Digits, MaxIdDigits) \ {<<>>}
Roles == {None, Some(<<"email">>)}
Texts == {None, Some(<<>>), Some(<<"Sign", SP, "In">>)}
FlagLists ==
    {None, Some(<<>>), Some(<<<<"checked">>>>), Some(<<<<"bogus">>, <<"focused">>>>),
     Some(<<<<"disabled">>, <<"readonly">>, <<"expanded">>, <<"selected">>>>)}
ParamLists == {None, Some(<<>>), Some(<<<<"username">>, <<"password">>>>)}
Reasons == {None, Some(<<"form", SP, "found">>)}

ElementLines ==
    {ElementLine(id, <<"input">>, role, text, flags) :
        id \in Ids, role \in Roles, text \in Texts, flags \in FlagLists}
IntentLines ==
    {IntentLine(icon, <<"login">>, params, reason) :
        icon \in Icons, params \in ParamLists, reason \in Reasons}

\* The lines of the longer texts: elements that share an id or not, an id
\* and a count of more digits than int() takes, a line of no format, the
\* section headers, a title, an intent with a status icon and one without,
\* a page header, pattern names (one known, one of two keywords in capitals,
\* one unknown), a line that starts as the intents header does.
ProbeLines ==
    {ElementLine(<<"1">>, <<"input">>, Some(<<"email">>), None, Some(<<<<"checked">>>>)),
     ElementLine(<<"1">>, <<"button">>, None, Some(<<"Sign", SP, "In">>), None),
     ElementLine(<<"2">>, <<"a">>, None, None, None),
     ElementLine([n \in 1..(IntMaxStrDigits + 1) |-> "1"], <<"a">>, None, None, None),
     ScanLine(<<"2">>),
     ScanLine([n \in 1..(IntMaxStrDigits + 1) |-> "1"]),
     <<"garbage">>,
     <<"Title", ":", SP, "Login">>,
     HeaderLine(PageUrl, PageTitle),
     <<"Patterns", ":">>,
     PatternLine(<<"Login", SP, "Form">>),
     PatternLine(<<"SEARCH", SP, "modal">>),
     PatternLine(<<"Banner">>),
     IntentsHeader,
     <<"Available", SP, "Intents", SP, "below">>,
     IntentLine(GreenCircle, <<"login">>, None, None),
     IntentLine(PurpleCircle, <<"login">>, None, None)}

\* Lines joined by newlines.
Text(lines) == JoinWith(lines, <<NL>>)

ObservationTexts ==
    {Text(ls) : ls \in SeqsUpTo(ProbeLines, MaxLines)}
        \cup {Text(<<l>>) : l \in ElementLines}
        \cup {Text(<<IntentsHeader, l>>) : l \in IntentLines}

InitParse ==
    /\ InitSession
    /\ call = FixedCalls
    /\ reply \in ObservationTexts
    /\ result = NoOrynResult
    /\ InitLibIdle
    /\ InitSyncUnused

\* observe(): send() has returned reply; parse_observation builds the
\* observation or raises.
ParseReturns ==
    /\ ~observation.set
    /\ observation' = ParseObservation(reply)
    /\ UNCHANGED <<coreVars, syncVars, targetVars, findVars, reconnVars, runnerVars, frameVars>>

SpecParse == InitParse /\ [][ParseReturns]_vars

\* ------------------------------------------- format_target()
\* A target is an element id (an int) or a text (a str).  A text is a
\* sequence of tokens: a backslash, a double quote, a space, or a run of
\* letters.
BS == "\\"
IntTarget(n) == [kind |-> "int", val |-> n]
StrTarget(s) == [kind |-> "str", val |-> s]

\* str(n) for n >= 0: its decimal digits, most significant first.
RECURSIVE DecimalDigits(_)
DecimalDigits(n) ==
    IF n < 10 THEN <<DigitChars[n + 1]>>
    ELSE DecimalDigits(n \div 10) \o <<DigitChars[(n % 10) + 1]>>

\* roles, of which the texts of the model use two
RoleKeywords == {"email", "submit"}

\* target.lower() in roles
IsRole(s) == Len(s) = 1 /\ Lower(s[1]) \in RoleKeywords

\* s.replace(c, r): every occurrence of the character c becomes r.
RECURSIVE Replace(_, _, _)
Replace(s, c, r) ==
    IF s = <<>> THEN <<>>
    ELSE (IF Head(s) = c THEN r ELSE <<Head(s)>>) \o Replace(Tail(s), c, r)

\* Only the quotes are escaped.
EscapeString_QuotesOnly(s) == <<QT>> \o Replace(s, QT, <<BS, QT>>) \o <<QT>>

\* escape_string(s): backslashes are doubled, then quotes get a backslash,
\* and the result is put between quotes.
EscapeString(s) ==
    <<QT>> \o Replace(Replace(s, BS, <<BS, BS>>), QT, <<BS, QT>>) \o <<QT>>

\* format_target(target)
FormatTarget(t) ==
    IF t.kind = "int" THEN DecimalDigits(t.val)
    ELSE IF IsRole(t.val) THEN t.val
    ELSE EscapeString(t.val)

\* The ids that observations hold, and every text of the bounded length.
TextTokens == {"email", "Email", "a", SP, BS, QT}
Targets ==
    {IntTarget(ToInt(ds).val) : ds \in {d \in Ids : ToInt(d).ok}}
        \cup {StrTarget(s) : s \in SeqsUpTo(TextTokens, MaxTargetLen)}

InitTarget ==
    /\ InitSession
    /\ call = FixedCalls
    /\ InitNoReply
    /\ InitParseIdle
    /\ InitFindIdle
    /\ InitReconnIdle
    /\ InitRunnerIdle
    /\ InitFrameIdle
    /\ InitSyncUnused
    /\ target \in Targets
    /\ token = NoToken

\* format_target(target) returns the command token.
FormatTargetReturns ==
    /\ ~token.set
    /\ token' = [set |-> TRUE, val |-> FormatTarget(target)]
    /\ UNCHANGED <<coreVars, syncVars, parseVars, findVars, reconnVars, runnerVars, frameVars,
                   target>>

SpecTarget == InitTarget /\ [][FormatTargetReturns]_vars

\* ------------------------------------------- connect() and find_binary()
\* The places find_binary looks at, in its order: $ORYN_BINARY, the
\* configured binary_path, an `oryn` on PATH, the default locations.
Sources == <<"env", "config", "path", "default1", "default2">>

\* What is at a place: nothing (or the setting is empty), a regular file
\* without or with execute permission, a directory, or a file that is
\* neither regular nor a directory (a FIFO, a socket, a device) and has
\* execute permission.
FileKinds == {"absent", "plain", "directory", "regular_x", "special_x"}

\* os.path.isfile(p) and os.access(p, os.X_OK)
IsExecutableFile(kind) == kind = "regular_x"

\* shutil.which("oryn"): the file exists, os.access(..., F_OK | X_OK) holds
\* and it is not a directory.
Which(kind) == kind \in {"regular_x", "special_x"}

\* The first place in the order that passes its test, "none" if none does.
RECURSIVE FirstUsable(_, _)
FirstUsable(fs, n) ==
    IF n > Len(Sources) THEN "none"
    ELSE IF (IF Sources[n] = "path" THEN Which(fs[Sources[n]])
             ELSE IsExecutableFile(fs[Sources[n]]))
    THEN Sources[n]
    ELSE FirstUsable(fs, n + 1)

\* find_binary(config.binary_path)
FindBinary(fs) == FirstUsable(fs, 1)

FileSystems == [{Sources[n] : n \in 1..Len(Sources)} -> FileKinds]

InitFind ==
    /\ InitSession
    /\ call = FixedCalls
    /\ InitNoReply
    /\ InitParseIdle
    /\ InitTargetIdle
    /\ InitReconnIdle
    /\ InitRunnerIdle
    /\ InitFrameIdle
    /\ InitSyncUnused
    /\ files \in FileSystems
    /\ binary = "none"

\* What connect() leaves alone besides the session and the file system.
findFrame == <<call, log_sink, last_observation, errVars, replyVars, syncVars, parseVars, targetVars,
               reconnVars, runnerVars, frameVars>>

\* connect(): find_binary raises BinaryNotFoundError.
ConnectFindFails ==
    /\ connPc = "idle"
    /\ FindBinary(files) = "none"
    /\ connPc' = "failed"
    /\ connErr' = Raised("BinaryNotFound", NoRC)
    /\ UNCHANGED <<sessVars, lockVars, sendVars, closeVars, childVars, histVars,
                   findFrame, findVars>>

\* connect(): find_binary returns a path and the launch fails: the
\* configuration has no log_file attribute, or create_subprocess_exec raises
\* (execve refuses a file that is not a regular file with PermissionError,
\* which connect() turns into LaunchError).
ConnectExecFails ==
    /\ connPc = "idle"
    /\ FindBinary(files) # "none"
    /\ binary' = FindBinary(files)
    /\ connPc' = "failed"
    /\ \E k \in {"AttributeError", "Launch"} : connErr' = Raised(k, NoRC)
    /\ UNCHANGED <<sessVars, lockVars, sendVars, closeVars, childVars, histVars,
                   findFrame, files>>

\* connect(): find_binary returns the path of a regular executable file and
\* create_subprocess_exec starts it; the stderr drain task is started.
ConnectExec ==
    /\ connPc = "idle"
    /\ FindBinary(files) # "none"
    /\ files[FindBinary(files)] = "regular_x"
    /\ binary' = FindBinary(files)
    /\ connPc' = "ready_wait"
    /\ process' = TRUE
    /\ stderr_task' = "running"
    /\ alive' = TRUE
    /\ seen' = NoSeen
    /\ UNCHANGED <<connected, lockVars, connErr, sendVars, closeVars, exitstatus, returncode,
                   outBuf, outEof, inBuf, stdinState, order, served, finished,
                   touched, born, caught>>
    /\ UNCHANGED <<findFrame, files>>

NextFind == ConnectFindFails \/ ConnectExecFails \/ ConnectExec

SpecFind == InitFind /\ [][NextFind]_vars

\* ------------------------------------------- OrynClient.connect(), again
\* One OrynClient whose connect() and close() are called one after the
\* other, in any order.  Each connect() makes a new SubprocessTransport,
\* which spawns a new child.
TransportIds == 1..MaxConnects

NoTransport == [process |-> 0, connected |-> FALSE]

InitReconnect ==
    /\ InitSession
    /\ call = FixedCalls
    /\ InitNoReply
    /\ InitParseIdle
    /\ InitTargetIdle
    /\ InitFindIdle
    /\ InitRunnerIdle
    /\ InitFrameIdle
    /\ InitSyncUnused
    /\ transport = 0
    /\ transports = [t \in TransportIds |-> NoTransport]
    /\ children = [c \in TransportIds |-> "none"]
    /\ rpc = "idle"

reconnFrame == <<coreVars, syncVars, parseVars, targetVars, findVars, runnerVars, frameVars>>

\* The transports made so far.
Made == Cardinality({c \in TransportIds : children[c] # "none"})

\* OrynClient.connect(): self._transport = SubprocessTransport(config) takes
\* the place of the transport there was, then transport.connect() spawns
\* the child and waits for its prompt.
ClientConnectSpawn ==
    /\ rpc = "idle"
    /\ Made < MaxConnects
    /\ transport' = Made + 1
    /\ transports' = [transports EXCEPT ![Made + 1] = [process |-> Made + 1, connected |-> FALSE]]
    /\ children' = [children EXCEPT ![Made + 1] = "running"]
    /\ rpc' = "ready_wait"
    /\ UNCHANGED reconnFrame

\* transport.connect(): the prompt has come; self._connected = True.
ClientConnectReady ==
    /\ rpc = "ready_wait"
    /\ children[transports[transport].process] = "running"
    /\ transports' = [transports EXCEPT ![transport].connected = TRUE]
    /\ rpc' = "idle"
    /\ UNCHANGED <<transport, children, reconnFrame>>

\* transport.connect(): the child ended or the connect timeout expired;
\* _kill_process ends the child and clears self._process, and connect()
\* raises.  The client keeps the transport.
ClientConnectFails ==
    /\ rpc = "ready_wait"
    /\ children' = [children EXCEPT ![transports[transport].process] = "exited"]
    /\ transports' = [transports EXCEPT ![transport].process = 0]
    /\ rpc' = "idle"
    /\ UNCHANGED <<transport, reconnFrame>>

\* OrynClient.close(): the transport it holds is closed, which ends that
\* transport's child, and self._transport = None.
ClientClose ==
    /\ rpc = "idle"
    /\ transport # 0
    /\ children' = IF transports[transport].process # 0
                   THEN [children EXCEPT ![transports[transport].process] = "exited"]
                   ELSE children
    /\ transports' = [transports EXCEPT ![transport] = NoTransport]
    /\ transport' = 0
    /\ UNCHANGED <<rpc, reconnFrame>>

\* A child ends on its own.
ClientChildExits(c) ==
    /\ children[c] = "running"
    /\ children' = [children EXCEPT ![c] = "exited"]
    /\ UNCHANGED <<transport, transports, rpc, reconnFrame>>

NextReconnect ==
    \/ ClientConnectSpawn
    \/ ClientConnectReady
    \/ ClientConnectFails
    \/ ClientClose
    \/ \E c \in TransportIds : ClientChildExits(c)

SpecReconnect == InitReconnect /\ [][NextReconnect]_vars

\* ------------------------------------------- the benchmark runner
\* BenchmarkRunner.run() with one task of several episodes.  The Oryn
\* session the runner drives is up or lost; a call on a session that is up
\* returns, times out, loses the session, or raises something else, and a
\* call on a lost session raises ConnectionLostError.
CallOutcomes(up) ==
    IF up THEN {"ok", "TimeoutError", "ConnectionLostError", "ValueError"}
    ELSE {"ConnectionLostError"}

StillUp(up, o) == up /\ o # "ConnectionLostError"

\* run()'s test of the exception it caught: "TimeoutError" in the name of
\* its type, or "ConnectionLostError" in its message.  The message of a
\* ConnectionLostError is "Connection to oryn subprocess lost ...".
IsRecoverable(kind) == kind = "TimeoutError"

NoAggregate == [set |-> FALSE, episodes_count |-> 0, episodes_succeeded |-> 0, timeout_count |-> 0]

InitRunner ==
    /\ InitSession
    /\ call = FixedCalls
    /\ InitNoReply
    /\ InitParseIdle
    /\ InitTargetIdle
    /\ InitFindIdle
    /\ InitReconnIdle
    /\ InitFrameIdle
    /\ InitSyncUnused
    /\ runner_pc = "idle"
    /\ num_episodes \in 2..MaxEpisodes
    /\ episode = 0
    /\ episode_results = <<>>
    /\ prestart = <<>>
    /\ oryn_up = TRUE
    /\ restarts = 0
    /\ aggregated = NoAggregate

runnerFrame == <<coreVars, syncVars, parseVars, targetVars, findVars, reconnVars, frameVars>>

\* _run_task_multi_episode: self.oryn.goto(task.start_url) before the first
\* episode.  An exception leaves the method.
RunnerFirstGoto(o) ==
    /\ runner_pc = "idle"
    /\ o \in CallOutcomes(oryn_up)
    /\ oryn_up' = StillUp(oryn_up, o)
    /\ IF o = "ok"
       THEN runner_pc' = "prestart" /\ episode' = 1
       ELSE runner_pc' = o /\ UNCHANGED episode
    /\ UNCHANGED <<num_episodes, episode_results, prestart, restarts, aggregated, runnerFrame>>

\* The block that observes the page and clicks START before an episode:
\* `except Exception` logs whatever it raises and the method goes on to
\* self.agent.reset() and the episode.
RunnerPreStart(o) ==
    /\ runner_pc = "prestart"
    /\ o \in CallOutcomes(oryn_up)
    /\ oryn_up' = StillUp(oryn_up, o)
    /\ prestart' = Append(prestart, o)
    /\ runner_pc' = "episode"
    /\ UNCHANGED <<num_episodes, episode, episode_results, restarts, aggregated, runnerFrame>>

\* _run_single_episode: the turns run inside a try block, so the episode
\* always yields an EpisodeMetrics; a call that raises ends the turns with
\* success false.  timeout is set from the benchmark's reward and the
\* duration, for a failed episode that the benchmark evaluated.
RunnerEpisode(o, success, timeout) ==
    /\ runner_pc = "episode"
    /\ o \in CallOutcomes(oryn_up)
    /\ oryn_up' = StillUp(oryn_up, o)
    /\ o # "ok" => ~success
    /\ timeout => ~success /\ oryn_up'
    /\ episode_results' = Append(episode_results,
           [episode_number |-> episode, success |-> success, timeout |-> timeout,
            error |-> IF o = "ok" THEN "none" ELSE o])
    /\ runner_pc' = "reset"
    /\ UNCHANGED <<num_episodes, episode, prestart, restarts, aggregated, runnerFrame>>

\* _aggregate_episode_metrics(task_id, config, episodes)
Aggregate(episodes) ==
    [set |-> TRUE, episodes_count |-> Len(episodes),
     episodes_succeeded |-> Cardinality({n \in 1..Len(episodes) : episodes[n].success}),
     timeout_count |-> Cardinality({n \in 1..Len(episodes) : episodes[n].timeout})]

\* self.oryn.goto(task.start_url) after an episode, outside any try block;
\* after the last episode the results are aggregated.
RunnerResetGoto(o) ==
    /\ runner_pc = "reset"
    /\ o \in CallOutcomes(oryn_up)
    /\ oryn_up' = StillUp(oryn_up, o)
    /\ IF o # "ok"
       THEN runner_pc' = o /\ UNCHANGED <<episode, aggregated>>
       ELSE IF episode = num_episodes
       THEN runner_pc' = "aggregated" /\ aggregated' = Aggregate(episode_results)
                /\ UNCHANGED episode
       ELSE runner_pc' = "prestart" /\ episode' = episode + 1 /\ UNCHANGED aggregated
    /\ UNCHANGED <<num_episodes, episode_results, prestart, restarts, runnerFrame>>

\* run(): the exception that left _run_task.  A recoverable one makes the
\* runner close the session, start a new one and record the task as failed,
\* without episodes; any other is raised again.
RunnerHandler ==
    /\ runner_pc \in {"TimeoutError", "ConnectionLostError", "ValueError"}
    /\ IF IsRecoverable(runner_pc)
       THEN /\ restarts' = restarts + 1
            /\ oryn_up' = TRUE
            /\ runner_pc' = "task_failed"
       ELSE /\ runner_pc' = "crashed"
            /\ UNCHANGED <<restarts, oryn_up>>
    /\ UNCHANGED <<num_episodes, episode, episode_results, prestart, aggregated, runnerFrame>>

NextRunner ==
    \/ \E o \in CallOutcomes(TRUE) : RunnerFirstGoto(o)
    \/ \E o \in CallOutcomes(TRUE) : RunnerPreStart(o)
    \/ \E o \in CallOutcomes(TRUE), success, timeout \in BOOLEAN : RunnerEpisode(o, success, timeout)
    \/ \E o \in CallOutcomes(TRUE) : RunnerResetGoto(o)
    \/ RunnerHandler

SpecRunner == InitRunner /\ [][NextRunner]_vars

\* ------------------------------------------- framing by the prompt
\* The child's stdout as characters: a letter, ">", a space, a newline,
\* and one token for the banner text "Backend launched.".  The child writes
\* its text and then the prompt "> "; the reader gets what the pipe holds,
\* up to the size it asked for, however the child's writes were cut.
GT == ">"
Launched == "Backend launched."
Prompt == <<GT, SP>>

\* s.endswith(e) and e in s
EndsWith(s, e) == Len(s) >= Len(e) /\ SubSeq(s, Len(s) - Len(e) + 1, Len(s)) = e
Occurs(s, e) == \E n \in 1..(Len(s) - Len(e) + 1) : SubSeq(s, n, n + Len(e) - 1) = e

\* "\n> " in buffer or buffer.endswith("\n>") or buffer.endswith("> ")
HasPrompt(buf) ==
    Occurs(buf, <<NL, GT, SP>>) \/ EndsWith(buf, <<NL, GT>>) \/ EndsWith(buf, Prompt)

\* _wait_for_ready leaves its loop: the prompt test, or the banner together
\* with "> " anywhere in the buffer.
IsReady(buf) == HasPrompt(buf) \/ (Occurs(buf, <<Launched>>) /\ Occurs(buf, Prompt))

\* str.strip(): spaces and newlines go from both ends.
IsWs(c) == c \in {SP, NL}
RECURSIVE LStripWs(_)
LStripWs(s) == IF s # <<>> /\ IsWs(Head(s)) THEN LStripWs(Tail(s)) ELSE s
RECURSIVE RStripWs(_)
RStripWs(s) == IF s # <<>> /\ IsWs(s[Len(s)]) THEN RStripWs(SubSeq(s, 1, Len(s) - 1)) ELSE s
StripWs(s) == RStripWs(LStripWs(s))

\* buffer.rsplit("\n> ", 1)[0]: what stands before the last "\n> ".
BeforeLast(buf, e) ==
    LET n == CHOOSE k \in 1..(Len(buf) - Len(e) + 1) :
                 /\ SubSeq(buf, k, k + Len(e) - 1) = e
                 /\ \A j \in (k + 1)..(Len(buf) - Len(e) + 1) : SubSeq(buf, j, j + Len(e) - 1) # e
    IN  SubSeq(buf, 1, n - 1)

\* _read_response: the prompt is taken off the buffer.
RemovePrompt(buf) ==
    IF Occurs(buf, <<NL, GT, SP>>) THEN BeforeLast(buf, <<NL, GT, SP>>)
    ELSE IF EndsWith(buf, <<NL, GT>>) THEN SubSeq(buf, 1, Len(buf) - 2)
    ELSE LET cut == SubSeq(buf, 1, Len(buf) - 2)
         IN  IF EndsWith(cut, <<NL>>) THEN SubSeq(cut, 1, Len(cut) - 1) ELSE cut

\* The lines a child writes: plain text, text with "> " inside the line,
\* and the banner.
BodyLines == {<<"a">>, <<"a", SP, GT, SP, "a">>, <<Launched>>}

\* Texts of whole lines, each ended by a newline.
RECURSIVE Lines(_)
Lines(ls) == IF ls = <<>> THEN <<>> ELSE Head(ls) \o <<NL>> \o Lines(Tail(ls))

Bodies == {Lines(ls) : ls \in SeqsUpTo(BodyLines, MaxBodyLines)}

InitFrame ==
    /\ InitSession
    /\ call = FixedCalls
    /\ InitNoReply
    /\ InitParseIdle
    /\ InitTargetIdle
    /\ InitFindIdle
    /\ InitReconnIdle
    /\ InitRunnerIdle
    /\ InitSyncUnused
    /\ frame_mode \in {"ready", "response"}
    /\ body \in Bodies
    /\ to_write = body \o Prompt
    /\ pipe = <<>>
    /\ buffer = <<>>
    /\ frame_pc = "reading"

frameFrame == <<sessVars, lockVars, connVars, sendVars, closeVars, childVars, histVars,
                errVars, call, log_sink, last_observation, syncVars, parseVars,
                targetVars, findVars, reconnVars, runnerVars, frame_mode, body>>

\* The child writes the next n characters of its output.
FrameChildWrites(n) ==
    /\ n \in 1..Len(to_write)
    /\ pipe' = pipe \o SubSeq(to_write, 1, n)
    /\ to_write' = SubSeq(to_write, n + 1, Len(to_write))
    /\ UNCHANGED <<buffer, frame_pc, replyVars, frameFrame>>

\* One turn of the loop of _wait_for_ready or _read_response: read() returns
\* what the pipe holds, up to the size asked for; the chunk is added to the
\* buffer and the buffer is tested.  _wait_for_ready returns, after which
\* connect() sets _connected; _read_response returns the stripped text.
FrameRead ==
    /\ frame_pc = "reading"
    /\ pipe # <<>>
    /\ LET n == IF Len(pipe) < ChunkMax THEN Len(pipe) ELSE ChunkMax
           buf == buffer \o SubSeq(pipe, 1, n)
       IN  /\ pipe' = SubSeq(pipe, n + 1, Len(pipe))
           /\ buffer' = buf
           /\ IF frame_mode = "ready"
              THEN /\ frame_pc' = IF IsReady(buf) THEN "ready" ELSE "reading"
                   /\ UNCHANGED reply
              ELSE IF HasPrompt(buf)
              THEN frame_pc' = "returned" /\ reply' = StripWs(RemovePrompt(buf))
              ELSE frame_pc' = "reading" /\ UNCHANGED reply
    /\ UNCHANGED <<to_write, result, frameFrame>>

\* The timeout of connect() or send() expires while the loop waits.
FrameTimeout ==
    /\ frame_pc = "reading"
    /\ frame_pc' = "timeout"
    /\ UNCHANGED <<to_write, pipe, buffer, replyVars, frameFrame>>

NextFrame ==
    \/ \E n \in 1..Len(to_write) : FrameChildWrites(n)
    \/ FrameRead
    \/ FrameTimeout

SpecFrame == InitFrame /\ [][NextFrame]_vars

\* ------------------------------------------------------------ properties
\* is_connected()
is_connected == connected /\ process /\ returncode = NoRC


Done(i) == pc[i] = "done"

\* C1: at every instant at most one send() call is inside the exchange, and
\* a call writes its command only when no other call is inside it.
C1_MutualExclusion ==
    /\ \A i, j \in Callers : InExchange(i) /\ InExchange(j) => i = j
    /\ \A i \in Callers : InExchange(i) => locked

C1_Witness ==
    \E i, j \in Callers : pc[i] = "read" /\ pc[j] = "lock_wait" /\ i \in touched

\* C2: calls get the lock in the order in which they asked for it, and they
\* end their exchanges in that same order.
C2_SubmissionOrder ==
    /\ IsPrefix(served, order)
    /\ IsPrefix(finished, served)

C2_Witness ==
    /\ Len(waiters) = 2
    /\ woken = Head(waiters)
    /\ \E i \in Callers : outcome[i].kind = "ok" /\ finished = <<i>>

\* C3: the step in which send() raises Timeout, the child being alive, leaves
\* the connection flag, the process handle and the child as they were and the
\* lock free; and a call made after a Timeout fails with something other than
\* Timeout only if the child has ended or closed its stdout, or close() was
\* called.
C3_TimeoutStep ==
    \A i \in Callers :
        (outcome[i].kind = "none" /\ outcome'[i].kind = "Timeout" /\ alive) =>
            /\ connected' = connected
            /\ process' = process
            /\ alive'
            /\ is_connected' = is_connected
            /\ ~locked'

C3_LaterCall ==
    \A i \in Callers :
        (born[i].timeout /\ Done(i) /\ outcome[i].kind \notin {"ok", "Timeout"}) =>
            (~alive \/ outEof \/ seen.closed)

C3_TimeoutKeepsSession == [][C3_TimeoutStep]_vars /\ []C3_LaterCall

C3_Witness ==
    \E i, j \in Callers :
        /\ outcome[i].kind = "Timeout"
        /\ born[j].timeout
        /\ outcome[j].kind = "ok"
        /\ alive /\ is_connected

\* C4: a send() that ends when the child has exited, on a session that was
\* not closed and with no reply left to read, raises ConnectionLost carrying
\* the child's exit status.
C4_ExitCodeCarried ==
    [][\A i \in Callers :
        (/\ outcome[i].kind = "none" /\ outcome'[i].kind # "none"
         /\ ~alive /\ exitstatus # NoRC
         /\ connected /\ process /\ outBuf = <<>>)
        => outcome'[i] = Raised("ConnectionLost", exitstatus)]_vars

\* C5: once a send() has raised ConnectionLost, is_connected() is false and
\* every call made later raises ConnectionLost.
C5_LossIsPermanent ==
    /\ seen.lost => ~is_connected
    /\ \A i \in Callers :
        (born[i].lost /\ Done(i)) => outcome[i].kind = "ConnectionLost"

\* C6: a call made after a close() or after a ConnectionLost is rejected at
\* once with ConnectionLost and neither writes to stdin nor reads stdout.
C6_RejectedUntouched ==
    \A i \in Callers :
        (born[i].lost \/ born[i].closed) =>
            /\ i \notin touched
            /\ pc[i] \in {"idle", "done"}
            /\ Done(i) => outcome[i].kind = "ConnectionLost"

\* C7: every call that was in flight or queued when the child exited or
\* closed its stdout ends with ConnectionLost.
C7_PendingAllLost ==
    \A i \in caught :
        (Done(i) /\ ~seen.closed) => outcome[i].kind = "ConnectionLost"

\* C8: after connect() has failed and after close() has returned the session
\* holds no process handle and no child is running or unreaped.
Released == ~process /\ ~alive /\ (exitstatus # NoRC => returncode # NoRC)

C8_ProcessReleased ==
    /\ connPc = "failed" => Released
    /\ (seen.closed /\ cpc = "done") => Released

\* C9: close() never raises, and a close() on a session that a close() has
\* already closed returns in one step and changes nothing of the session,
\* the lock or the child.
CloseCalled ==
    /\ cpc \in {"idle", "done"}
    /\ cpc' \notin {"idle", "done"} \/ closes' = closes + 1

C9_SecondCloseStep ==
    /\ cpc' # "raised"
    /\ (seen.closed /\ CloseCalled) =>
            /\ cpc' = "done"
            /\ closes' = closes + 1
            /\ UNCHANGED <<sessVars, lockVars, childVars>>

CloseStep == CloseDrainResume \/ CloseWaitDone \/ CloseKillWaitDone \/ CloseStderrDone

C10_CloseTerminates ==
    /\ cpc \notin {"idle", "done"} =>
            (ENABLED CloseStep \/ ENABLED NotifyExit \/ ENABLED StderrEof)
    /\ (seen.closed /\ cpc = "done") => ~alive

\* C11: a connect() that has spawned the child and does not reach readiness
\* fails with Launch or with Timeout and with nothing else: Launch only when
\* stdout is at end of stream, carrying the exit code the event loop knows
\* (none when it knows none); Timeout, naming "connect" and the configured
\* connect timeout, only when the event loop knows no exit code, and always
\* when the timeout expires on a child that is alive with its stdout open;
\* and the session is not marked connected.
ConnectFails ==
    /\ connPc \in {"ready_wait", "eof_sleep"}
    /\ connPc' \in {"kill_wait", "failed"}

C11_FailStep ==
    ConnectFails =>
        /\ ~connected'
        /\ \/ /\ connErr'.kind = "Launch"
              /\ outEof
              /\ connErr'.rc = returncode
           \/ /\ connErr' = TimeoutError(<<"connect">>, ConfigConnectTimeout)
              /\ returncode = NoRC
        /\ (alive /\ ~outEof) => connErr'.kind = "Timeout"

C11_Failed ==
    /\ connPc \in {"kill_wait", "failed"} => ~connected
    /\ connPc = "kill_wait" => connErr.kind = "Timeout"

ChildFailedLaunch ==
    /\ ~alive /\ exitstatus = ExitCrash
    /\ outBuf = <<>>
    /\ errWritten > 0 /\ errWritten <= TailLimit /\ errPending = 0

C12_LaunchMessage ==
    (connPc = "failed" /\ ChildFailedLaunch) =>
        connErr = LaunchError(exitstatus, Chunk(1, errWritten))

\* C13: whenever the child is blocked writing to a full stderr pipe, the
\* drain task is running, and with the drain task scheduled fairly the child
\* gets unblocked: it can go on to read the command and write its reply
\* whatever the call itself is waiting for.
C13_DrainRuns == ErrBlocked => stderr_task = "running"

C13_StderrNeverStalls == []C13_DrainRuns /\ (ErrBlocked ~> ~ErrBlocked)

C13_Witness == ErrBlocked /\ pc[1] = "read" /\ inBuf = <<1>>

\* C14: the retained tail, joined, is the last stderr_tail_chars characters
\* of the stream read so far, in order and without a gap; it is never longer
\* than the budget; and the tracked size is the size of what is retained.
RECURSIVE NoEmptyChunk(_)
NoEmptyChunk(chunks) ==
    chunks = <<>> \/ (Head(chunks) # <<>> /\ NoEmptyChunk(Tail(chunks)))

C14_TailIsRecent ==
    /\ stderr_tail_chars = Len(Join(stderr_tail))
    /\ stderr_tail_chars <= TailLimit
    /\ stderr_tail_chars <= errRead
    /\ Join(stderr_tail) = Chunk(errRead - stderr_tail_chars + 1, stderr_tail_chars)
    /\ NoEmptyChunk(stderr_tail)

C14_Witness ==
    /\ errRead = MaxStderr
    /\ Len(stderr_tail) = 2
    /\ stderr_tail_chars = TailLimit
    /\ stderr_tail_chars < errRead

\* C15: the per-command timeout covers the whole call: wherever a call that
\* has been made is suspended (waiting for the lock, in drain(), or reading
\* the reply), the expiry of its timeout can end it.
Suspended(i) == pc[i] \in {"lock_wait", "drain", "read", "eof_sleep"}

C15_TimeoutCoversCall ==
    \A i \in Callers : Suspended(i) => ENABLED SendTimeout(i)

\* C16: whatever the command string, a per-command timeout that expires
\* while the child is alive makes the call fail with Timeout, whose operation
\* is the first word of the command ("command" when it has none) and whose
\* timeout is the configured per-command timeout.
CommandName(command) ==
    IF Split(command) = <<>> THEN <<"command">> ELSE Split(command)[1]

C16_TimeoutStep ==
    (SendTimeout(1) /\ alive) =>
        outcome'[1] = TimeoutError(CommandName(SendCommand(1)), ConfigTimeout)

C16_TimeoutNamesCommand == [][C16_TimeoutStep]_vars

\* C19: last_observation is the Observation of the observe() that returned
\* last (none before the first one): an execute() and an observe() that
\* raised leave it as it was.
RECURSIVE LastObserved(_)
LastObserved(f) ==
    IF f = <<>> THEN NoObservation
    ELSE LET i == f[Len(f)]
         IN  IF IsObserve(i) /\ outcome[i].kind = "ok"
             THEN Observation(i, outcome[i].resp)
             ELSE LastObserved(SubSeq(f, 1, Len(f) - 1))

C19_CacheIsLatest == last_observation = LastObserved(finished)

C19_Witness ==
    /\ finished = <<1, 2, 3>>
    /\ outcome[1].kind = "ok" /\ outcome[2].kind = "ok" /\ outcome[3].kind = "Timeout"
    /\ IsObserve(1) /\ ~IsObserve(2) /\ IsObserve(3)
    /\ last_observation = Observation(1, outcome[1].resp)

\* C20: a reply with a line `Error: <message>` gives a Result with success
\* false and error equal to <message>, the text after the prefix; a reply
\* that no failure rule matches gives success true and no error.
IsErrorMessageLine(line) == Len(line) > 1 /\ Head(line) = ErrPrefix

\* The message of the first `Error: <message>` line.
ErrorMessage(raw) ==
    LET ls == SelectSeq(StrippedLines(raw), IsErrorMessageLine)
    IN  Strip(Tail(Head(ls)))

HasErrorMessage(raw) == SelectSeq(StrippedLines(raw), IsErrorMessageLine) # <<>>

C20_ResultOfReply ==
    result.set =>
        /\ HasErrorMessage(reply) =>
                /\ ~result.success
                /\ result.has_error /\ result.error = ErrorMessage(reply)
        /\ ~IsErrorResponse(reply) => (result.success /\ ~result.has_error)

\* C17: a blocking call ends as the same call on OrynClient can end (it
\* returns, or raises Timeout or ConnectionLost) and never with an error of
\* the adapter itself, and while it runs it is driven by the loop that owns
\* the session's streams.
Driven(th) == tpc[th] \in {"start", "lock_test", "lock_wait", "exchange"}

C17_SyncEquivalent ==
    \A th \in Threads :
        /\ tres[th] \in {"none", "ok", "Timeout", "ConnectionLost"}
        /\ (Driven(th) /\ stream_loop # 0) => tloop[th] = stream_loop

\* C18: no two blocking calls are inside the command exchange at once.
C18_SyncExclusive ==
    \A th, u \in Threads : (tpc[th] = "exchange" /\ tpc[u] = "exchange") => th = u

\* C21: parse_observation never raises: for every input text it returns an
\* Observation, and a line that matches no rule of the grammar is dropped
\* without changing how the other lines are parsed.
MatchesNoRule(raw_line) ==
    LET line == Strip(raw_line)
    IN  /\ line # <<>>
        /\ line # <<"Patterns", ":">>
        /\ ~IsPrefix(<<"Available", SP, "Intents">>, line)
        /\ ~ScanMatch(line).ok
        /\ ~IsPrefix(<<"Title", ":">>, line)
        /\ ~IsPrefix(<<"URL", ":">>, line)
        /\ ~ElementMatch(line).ok
        /\ ~IntentMatch(line).ok
        /\ ~IsPrefix(<<"-", SP>>, line)

WithoutUnmatched(raw) ==
    Text(SelectSeq(SplitLines(raw), LAMBDA l : ~MatchesNoRule(l)))

C21_NeverRaises ==
    observation.set =>
        /\ observation.raised = "none"
        /\ observation = ParseObservation(WithoutUnmatched(reply))

\* C22: a line of the element grammar `[id] type[/role] ["text"] [{flags}]`
\* in a scan body yields one Element with the id, type, role and text of the
\* line, the state flags named in the braces true and every other state flag
\* false; flag names that are not state flags are ignored.
ElementOf(id, type, role, text, flags) ==
    [id |-> DecimalValue(id), element_type |-> type, role |-> role, text |-> text,
     state |-> [f \in StateFlags |->
                   flags.some /\ \E n \in 1..Len(flags.val) : flags.val[n] = <<f>>]]

C23_UniqueIds ==
    observation.set =>
        \A m, n \in 1..Len(observation.elements) :
            observation.elements[m].id = observation.elements[n].id => m = n

\* C24: an intent-availability line yields one IntentAvailability with the
\* name, the parameter names in order and the optional trigger reason of the
\* line, and the status that the icon table gives (green: ready, orange:
\* navigate_required, red: missing_pattern, black: unavailable); a line
\* whose icon is none of the four yields an entry with status "unknown".
StatusTable(icon) ==
    CASE icon = GreenCircle -> "ready"
      [] icon = OrangeCircle -> "navigate_required"
      [] icon = RedCircle -> "missing_pattern"
      [] icon = BlackCircle -> "unavailable"
      [] OTHER -> "unknown"

C24_IntentOfLine ==
    \A icon \in Icons, params \in ParamLists, reason \in Reasons :
        (/\ observation.set
         /\ reply = Text(<<IntentsHeader, IntentLine(icon, <<"login">>, params, reason)>>))
            => observation.available_intents
                   = <<[name |-> <<"login">>, status |-> StatusTable(icon),
                        parameters |-> IF params.some THEN params.val ELSE <<>>,
                        trigger_reason |-> reason]>>

\* C25: format_target passes an integer id through as its decimal digits and
\* a role keyword through verbatim, and quotes every other text with its
\* backslashes and double quotes escaped; within each of the three
\* categories distinct targets give distinct tokens, and unquoting and
\* unescaping a quoted token gives back the text.
RECURSIVE Unescape(_)
Unescape(s) ==
    IF s = <<>> THEN [ok |-> TRUE, val |-> <<>>]
    ELSE IF Head(s) = QT THEN [ok |-> FALSE, val |-> <<>>]
    ELSE IF Head(s) = BS
    THEN IF Len(s) = 1 THEN [ok |-> FALSE, val |-> <<>>]
         ELSE LET rest == Unescape(SubSeq(s, 3, Len(s)))
              IN  [ok |-> rest.ok, val |-> <<s[2]>> \o rest.val]
    ELSE LET rest == Unescape(Tail(s))
         IN  [ok |-> rest.ok, val |-> <<Head(s)>> \o rest.val]

Unquote(tok) ==
    IF Len(tok) >= 2 /\ tok[1] = QT /\ tok[Len(tok)] = QT
    THEN Unescape(SubSeq(tok, 2, Len(tok) - 1))
    ELSE [ok |-> FALSE, val |-> <<>>]

Category(t) ==
    IF t.kind = "int" THEN "id" ELSE IF IsRole(t.val) THEN "role" ELSE "text"

C25_FormatTarget ==
    token.set =>
        /\ Category(target) = "id" =>
               /\ \A n \in 1..Len(token.val) : token.val[n] \in {DigitChars[d] : d \in 1..10}
               /\ DecimalValue(token.val) = target.val
        /\ Category(target) = "role" => token.val = target.val
        /\ Category(target) = "text" => Unquote(token.val) = [ok |-> TRUE, val |-> target.val]
        /\ \A t \in Targets :
               (Category(t) = Category(target) /\ FormatTarget(t) = token.val) => t = target

C25_Witness ==
    /\ token.set
    /\ target = StrTarget(<<"a", BS, QT>>)
    /\ token.val = <<QT, "a", BS, BS, BS, QT, QT>>

\* C26: connect() spawns a process only for a path that is a regular
\* executable file, the places being tried in their order; when no place
\* holds such a file connect() fails with BinaryNotFound, no process is
\* spawned and the session is as it was before the call.
RECURSIVE FirstRegularExecutable(_, _)
FirstRegularExecutable(fs, n) ==
    IF n > Len(Sources) THEN "none"
    ELSE IF fs[Sources[n]] = "regular_x" THEN Sources[n]
    ELSE FirstRegularExecutable(fs, n + 1)

C26_SpawnOnlyExecutable ==
    /\ process => binary = FirstRegularExecutable(files, 1)
    /\ (connPc # "idle" /\ FirstRegularExecutable(files, 1) = "none") =>
           /\ connErr = Raised("BinaryNotFound", NoRC)
           /\ ~process /\ ~alive /\ ~connected
           /\ stderr_task = "none"
           /\ binary = "none"

\* C27: one child per logical connection: the client never has more than
\* one live child, and every live child is the process of the transport the
\* client holds, so that close() reaches it; this holds also when connect()
\* is called again with no close() in between.
LiveChildren == {c \in TransportIds : children[c] = "running"}

C27_OneChild ==
    /\ Cardinality(LiveChildren) <= 1
    /\ \A c \in LiveChildren : transport # 0 /\ transports[transport].process = c

\* C28: in a multi-episode run, when the observe before an episode fails
\* with an operation timeout or a lost connection, the runner starts the
\* Oryn session anew, records that episode as failed and as a timeout, and
\* runs the remaining episodes, so that the run ends with an aggregated
\* result of one entry per requested episode.
RunEnded == runner_pc \in {"aggregated", "task_failed", "crashed"}

C28_PrestartRecovery ==
    \A n \in 1..Len(prestart) :
        prestart[n] \in {"TimeoutError", "ConnectionLostError"} =>
            /\ Len(episode_results) >= n =>
                   /\ restarts >= 1
                   /\ ~episode_results[n].success
                   /\ episode_results[n].timeout
            /\ RunEnded => aggregated.set /\ aggregated.episodes_count = num_episodes

\* C29: execute returns exactly the text the child wrote between the
\* previous prompt and the next prompt at the start of a line, with the
\* prompt and trailing whitespace removed: a "> " inside a line does not end
\* the reply and no text before the final prompt is dropped.
C29_ReplyIsBody ==
    (frame_mode = "response" /\ frame_pc = "returned") => reply = RStripWs(body)

\* C30: connect() takes the child as ready only after its stdout has shown
\* the prompt at the start of a line; output that holds "> " only inside a
\* line does not count.
PromptAtLineStart(buf) ==
    \E n \in 1..Len(buf) :
        /\ buf[n] = GT
        /\ n = 1 \/ buf[n - 1] = NL
        /\ n = Len(buf) \/ buf[n + 1] = SP

C30_ReadyAfterPrompt ==
    (frame_mode = "ready" /\ frame_pc = "ready") => PromptAtLineStart(buffer)

\* C31: an exception raised inside the stderr drain loop (by the read of the
\* error stream, by the write to the log sink, or by the loop itself) never
\* reaches a caller: close() never raises it, and the step in which it is
\* raised changes neither the session (handle, connection state, lock), nor
\* any call in progress, nor the child's other streams.  After it the
\* session still executes commands and close() still returns.
C31_DrainStep ==
    (drain_error' # drain_error) =>
        UNCHANGED <<process, connected, lockVars, connVars, sendVars, closeVars,
                    alive, exitstatus, returncode, outBuf, outEof, inBuf, stdinState>>

C31_DrainErrorContained == [](cpc # "raised") /\ [][C31_DrainStep]_vars

C31_Witness ==
    /\ born[1].drain /\ drain_error \in {"read", "log write"}
    /\ outcome[1].kind = "ok"
    /\ closes >= 1 /\ cpc = "done"

\* C32: classification ignores log noise.  A line that, colour sequences
\* and surrounding blanks aside, starts with a timestamp, or that holds a
\* module path ("::") and a level (ERROR, WARN, INFO), never makes a reply a
\* failure, whatever else it holds; a reply is a success exactly when none of
\* its other lines starts with the error prefix or holds the phrase of one of
\* the other three rules.
Visible(raw_line) == SelectSeq(raw_line, LAMBDA c : c \notin {Colour, SP})

NoiseLine(raw_line) ==
    \/ Visible(raw_line) # <<>> /\ Head(Visible(raw_line)) = Timestamp
    \/ /\ \E n \in 1..Len(raw_line) : raw_line[n] \in {LogMark, ModPath}
       /\ \E n \in 1..Len(raw_line) : raw_line[n] \in {LogMark, Level, UpperErrPrefix}

FailureLine(raw_line) ==
    \/ Visible(raw_line) # <<>> /\ Head(Visible(raw_line)) \in {ErrPrefix, UpperErrPrefix}
    \/ \E n \in 1..Len(raw_line) : raw_line[n] \in Phrases

C33_OneClassifier == result.set => (result.success <=> ParseActionResponse(reply))

\* C34: a page header line (the marker, a URL token and a quoted title) in
\* an observe reply sets the Observation's url to the URL token and its
\* title to the quoted title, wherever the line stands among lines that name
\* no title and no URL themselves.
NamesPage(raw_line) ==
    IsPrefix(<<"Title", ":">>, Strip(raw_line)) \/ IsPrefix(<<"URL", ":">>, Strip(raw_line))

C34_HeaderSetsPage ==
    (/\ observation.set
     /\ \E n \in 1..Len(SplitLines(reply)) : SplitLines(reply)[n] = HeaderLine(PageUrl, PageTitle)
     /\ \A n \in 1..Len(SplitLines(reply)) : ~NamesPage(SplitLines(reply)[n]))
        => observation.url = PageUrl /\ observation.title = PageTitle

\* C35: section mode.  A line equal to `Patterns:` or `Available Intents:`
\* switches the parsing mode for all following lines until the next such
\* line or the end of the text; every name in the Patterns section that
\* holds one of the keywords login, search, pagination, modal, cookie, in
\* any case, has a pattern it names recorded, nothing is recorded that no
\* name holds, and the patterns field is absent exactly when no name holds
\* a keyword.
IsSectionHeader(raw_line) == Strip(raw_line) \in {<<"Patterns", ":">>, IntentsHeader}

InPatterns(lines, n) ==
    \E m \in 1..(n - 1) :
        /\ Strip(lines[m]) = <<"Patterns", ":">>
        /\ \A k \in (m + 1)..(n - 1) : ~IsSectionHeader(lines[k])

PatternNames(raw) ==
    LET lines == SplitLines(raw)
    IN  {Strip(SubSeq(Strip(lines[n]), 3, Len(Strip(lines[n])))) :
            n \in {k \in 1..Len(lines) :
                      InPatterns(lines, k) /\ IsPrefix(<<"-", SP>>, Strip(lines[k]))}}

FieldsNamed(name) ==
    {f \in {"login", "search", "pagination", "modal", "cookie_banner"} :
        \E n \in 1..Len(name) :
            \/ Lower(name[n]) = f
            \/ Lower(name[n]) = "cookie" /\ f = "cookie_banner"}

C35_SectionMode ==
    (observation.set /\ observation.raised = "none") =>
        /\ \A name \in PatternNames(reply) :
               FieldsNamed(name) # {} => FieldsNamed(name) \cap observation.patterns.val # {}
        /\ \A f \in observation.patterns.val :
               \E name \in PatternNames(reply) : f \in FieldsNamed(name)
        /\ ~observation.patterns.some <=>
               \A name \in PatternNames(reply) : FieldsNamed(name) = {}

\* C36: reply correlation.  Every send() that returns a response returns the
\* reply the child wrote for its own command; the late reply to a command
\* that timed out is never returned to a following command.
C36_ReplyCorrelation ==
    \A i \in Callers : outcome[i].kind = "ok" => outcome[i].resp = <<i>>

\* C37: the error taxonomy is closed under interleaving.  Every send() that
\* does not return a response fails with ConnectionLost or Timeout, however
\* it interleaves with close(), with the child's exit and with a failing
\* write to the child's stdin; no other exception reaches the caller.
C37_ClosedTaxonomy ==
    \A i \in Callers : outcome[i].kind \in {"none", "ok", "ConnectionLost", "Timeout"}

\* C38: framing does not depend on chunking.  For the stream the child
\* writes, the text send() returns is the text it returns when the whole
\* stream arrives as one chunk, whatever the chunks are, and nothing but
\* the blank that ends the prompt is left unread for the next reply.
C38_ChunkingInvisible ==
    (frame_mode = "response" /\ frame_pc = "returned") =>
        /\ reply = StripWs(RemovePrompt(body \o Prompt))
        /\ pipe \o to_write \in {<<>>, <<SP>>}

\* C39: send() returns normally only with text read from the child's stdout
\* up to a prompt.  When close() clears the process handle after the command
\* was written and before the read starts, the call fails with
\* ConnectionLost and does not return an empty response.
C39_NoEmptyReturn ==
    \A i \in Callers : outcome[i].kind = "ok" => outcome[i].resp # <<>>

\* C40: every write to the child's stdin is made under the session lock.
\* close() never writes its exit line while a command exchange of a caller
\* is in flight, so a command and the exit line are never interleaved.
C40_ExitWritten ==
    inBuf' = Append(inBuf, ExitLine) => (~locked /\ \A i \in Callers : ~InExchange(i))

C40_WritesUnderLock == [][C40_ExitWritten]_vars

====
